---- MODULE Spec2Model ----
(***************************************************************************)
(* A model of the strided-view core of numts: the tensor view (buffer,     *)
(* shape, stride, offset, initial_offset), the shape/stride algebra of     *)
(* indexing, the index-order iterators, slicing, set/get and broadcasting. *)
(*                                                                         *)
(* JavaScript arrays are 0-based; sequences here are 1-based, so axis a of *)
(* the source is position a+1 and buffer offset o is element o+1.          *)
(***************************************************************************)
EXTENDS Integers, Sequences, FiniteSets, TLC

VARIABLES
    heap,      \* the array objects that exist: id -> [kind, elems, bad]
    views,     \* the tensor objects that exist, in order of creation
    made,      \* for each tensor, the call that made it: [op, parent, args]
    last,      \* what the last call was and what it returned or threw
    iterable,  \* the object slice_iterator returned (its captured bounds)
    objs,      \* index tuples allocated by generators: id -> tuple
    gens,      \* one generator object per consumer of `iterable`
    call       \* the arguments of a call of a pure function

vars == <<heap, views, made, last, iterable, objs, gens, call>>

(***************************************************************************)
(* Bounds of the model.                                                    *)
(***************************************************************************)
MaxExtent == 3      \* largest extent of an axis of a fresh view
MaxStep == 2        \* largest step of a range index
MaxDepth == 2       \* longest chain of slice / squeeze calls

(***************************************************************************)
(* Element arithmetic.                                                     *)
(***************************************************************************)
\* Uint32Array elements wrap modulo 2^32.  TLC's integers end at 2^31 - 1, so
\* the model wraps them at 2^16: far above every extent, stride and offset of
\* the model, and a wrapped -1 is still larger than any of them.
Uint32Modulus == 65536

\* Storing a number into a Uint32Array element.
U32(x) == x % Uint32Modulus

\* NaN and undefined, which the model does not tell apart: a value no element
\* of the model takes.
NaN == 0 - 2 ^ 30

\* null as an entry of a range index: another value no element takes.
Null == NaN - 1

\* Storing an entry of an index into a Uint32Array element: null becomes 0.
ToUint32(x) == IF x = Null THEN 0 ELSE U32(x)

Min(a, b) == IF a < b THEN a ELSE b
Max(a, b) == IF a > b THEN a ELSE b

\* Math.ceil(a / b) and Math.floor(a / b) for a >= 0, b >= 1.
CeilDiv(a, b) == (a + b - 1) \div b
FloorDiv(a, b) == a \div b

RECURSIVE SumTo(_, _)
SumTo(n, f) == IF n = 0 THEN 0 ELSE f[n] + SumTo(n - 1, f)

RECURSIVE ProdTo(_, _)
ProdTo(n, f) == IF n = 0 THEN 1 ELSE f[n] * ProdTo(n - 1, f)

\* array.filter((e, j) => keep(j)) for a set of kept positions.
RECURSIVE Filter(_, _, _)
Filter(s, keep, j) ==
    IF j > Len(s) THEN <<>>
    ELSE (IF j \in keep THEN <<s[j]>> ELSE <<>>) \o Filter(s, keep, j + 1)

Zeros(n) == [i \in 1..n |-> 0]
Ones(n) == [i \in 1..n |-> 1]

(***************************************************************************)
(* utils                                                                   *)
(***************************************************************************)
\* utils.dot: array1.reduce((a, b, i) => a + b * array2[i], 0)
dot(array1, array2) == SumTo(Len(array1), [i \in 1..Len(array1) |-> array1[i] * array2[i]])

\* utils._typed_array_sub on Uint32Arrays
typed_array_sub(a, b) == [i \in 1..Len(a) |-> U32(a[i] - b[i])]

dtype_map(dtype) ==
    CASE dtype = "int8" -> "Int8Array"
      [] dtype = "int16" -> "Int16Array"
      [] dtype = "int32" -> "Int32Array"
      [] dtype = "uint8" -> "Uint8Array"
      [] dtype = "uint8c" -> "Uint8ClampedArray"
      [] dtype = "uint16" -> "Uint16Array"
      [] dtype = "uint32" -> "Uint32Array"
      [] dtype = "float32" -> "Float32Array"
      [] dtype = "float64" -> "Float64Array"
      [] OTHER -> "Float64Array"

\* ArrayBuffer.isView(x) for an array object x of the heap.
is_view_kind(kind) == kind \notin {"Array", "NotArray"}

\* A faulty is_numeric_array, which does not look at the elements.
is_array_like(x) == x.kind # "NotArray"

\* utils.is_numeric_array: a typed array, or an array all of whose elements
\* are numeric (`bad` holds the positions of the elements that are not).
is_numeric_array(x) ==
    IF x.kind = "NotArray" THEN FALSE
    ELSE IF is_view_kind(x.kind) THEN TRUE
    ELSE x.bad = {}

(***************************************************************************)
(* indexing: shape and stride algebra                                      *)
(***************************************************************************)
\* shape.reduce((a, b) => a * b): a TypeError on an empty shape.
compute_size_throws(shape) == Len(shape) = 0
compute_size(shape) == ProdTo(Len(shape), shape)

\* A shape argument is [t, v]: t is "undefined", "null", "int", "array",
\* "nonnumeric" (an array with a non-numeric entry), "typed" or "other".
compute_shape_throws(shape) == shape.t \in {"nonnumeric", "other", "undefined", "null"}
compute_shape(shape) ==
    CASE shape.t = "int" -> <<U32(shape.v[1])>>
      [] shape.t = "array" ->
            IF Len(shape.v) = 0 THEN <<0>>
            ELSE [i \in 1..Len(shape.v) |-> U32(shape.v[i])]
      [] OTHER -> shape.v

new_shape_from_slice(start, stop, steps) ==
    [i \in 1..Len(stop) |-> U32(FloorDiv(U32(stop[i] - start[i]), steps[i]))]

compute_slice_size(lower_bounds, upper_bounds, steps) ==
    LET ranges == typed_array_sub(upper_bounds, lower_bounds)
    IN ProdTo(Len(ranges), [i \in 1..Len(ranges) |-> CeilDiv(ranges[i], steps[i])])

index_in_data(indices, stride, initial_offset) == dot(indices, stride) + initial_offset

RECURSIVE stride_loop(_, _, _)
stride_loop(shape, stride, i) ==
    IF i > Len(shape) - 1 THEN stride
    ELSE stride_loop(shape, [stride EXCEPT ![i + 1] = U32(stride[i] * shape[i])], i + 1)

\* indexing.new_shape_from_axis; new Uint32Array(1) is the array [0].
new_shape_from_axis(old_shape, axis) ==
    IF Len(old_shape) = 1 THEN Zeros(1)
    ELSE Filter(old_shape, (1..Len(old_shape)) \ {axis + 1}, 1)

\* A faulty stride, with the last axis varying fastest in the buffer.
row_major_stride(shape) ==
    [i \in 1..Len(shape) |-> U32(ProdTo(Len(shape), [j \in 1..Len(shape) |-> IF j > i THEN shape[j] ELSE 1]))]

stride_from_shape(shape) ==
    IF Len(shape) = 0 THEN <<>>
    ELSE stride_loop(shape, [Zeros(Len(shape)) EXCEPT ![1] = 1], 1)

\* An index argument is [t, a]: t = "null"; t = "num" with a = <<k>>; or
\* t = "arr" with a the array (two or more entries).
NullIndex == [t |-> "null", a |-> <<>>]
Num(k) == [t |-> "num", a |-> <<k>>]
Arr(a) == [t |-> "arr", a |-> a]

is_numeric(index) == index.t = "num"

checks_indices_are_single_index(indices) == \A i \in 1..Len(indices) : is_numeric(indices[i])

\* A faulty conversion, which corrects the scalar indices only.
convert_scalars_only(indices, shape) ==
    [i \in 1..Len(indices) |->
        IF is_numeric(indices[i])
        THEN [indices[i] EXCEPT !.a[1] = IF @ < 0 THEN shape[i] + @ ELSE @]
        ELSE indices[i]]

\* indexing.convert_negative_indices: the caller's list after the call.
\* new_indices is a copy of the list, so a scalar entry of the caller stays;
\* a range entry is the caller's own array, and index[1] = second_index
\* writes into it.
caller_indices_after(indices, shape) ==
    [i \in 1..Len(indices) |->
        IF ~is_numeric(indices[i]) /\ indices[i].t = "arr"
        THEN [indices[i] EXCEPT !.a[2] = IF @ # Null /\ @ < 0 THEN shape[i] + @ ELSE @]
        ELSE indices[i]]

\* indexing.convert_negative_indices: the list it returns.  null < 0 is
\* false, so a null end stays null.
convert_negative_indices(indices, shape) ==
    [i \in 1..Len(indices) |->
        IF is_numeric(indices[i])
        THEN [indices[i] EXCEPT !.a[1] = IF @ < 0 THEN shape[i] + @ ELSE @]
        ELSE IF indices[i].t = "arr"
        THEN [indices[i] EXCEPT !.a[2] = IF @ # Null /\ @ < 0 THEN shape[i] + @ ELSE @]
        ELSE indices[i]]

calculate_broadcast_throws(a, b) ==
    /\ Len(a) # 0
    /\ Len(b) # 0
    /\ \E j \in 1..Max(Len(a), Len(b)) :
        LET a_axis_size == IF Len(a) - j >= 0 THEN a[Len(a) - j + 1] ELSE 1
            b_axis_size == IF Len(b) - j >= 0 THEN b[Len(b) - j + 1] ELSE 1
        IN a_axis_size # b_axis_size /\ a_axis_size # 1 /\ b_axis_size # 1

\* A faulty calculate_broadcast_dimensions, which aligns the two shapes from
\* the left.
broadcast_dimensions_left_aligned(a, b) ==
    [p \in 1..Max(Len(a), Len(b)) |->
        LET a_axis_size == IF p <= Len(a) THEN a[p] ELSE 1
            b_axis_size == IF p <= Len(b) THEN b[p] ELSE 1
        IN IF a_axis_size = 1 THEN b_axis_size ELSE a_axis_size]

calculate_broadcast_dimensions(a, b) ==
    IF Len(a) = 0 THEN b
    ELSE IF Len(b) = 0 THEN a
    ELSE LET number_of_dimensions == Max(Len(a), Len(b))
         IN [p \in 1..number_of_dimensions |->
                LET j == number_of_dimensions - p + 1
                    a_axis_size == IF Len(a) - j >= 0 THEN a[Len(a) - j + 1] ELSE 1
                    b_axis_size == IF Len(b) - j >= 0 THEN b[Len(b) - j + 1] ELSE 1
                IN IF a_axis_size = b_axis_size THEN a_axis_size
                   ELSE IF a_axis_size = 1 THEN b_axis_size
                   ELSE a_axis_size]

(***************************************************************************)
(* indexing.slice_iterator: the iterable captures lower, upper, steps,     *)
(* size and end_dimension; each traversal is a generator object with its   *)
(* own current_index.  Index tuples are objects of a store `os`, so that   *)
(* what a generator keeps and what it hands out can be told apart.         *)
(***************************************************************************)
slice_iterator(lower_or_upper, upper_bounds, steps) ==
    [lower |-> lower_or_upper, upper |-> upper_bounds, steps |-> steps,
     size |-> compute_slice_size(lower_or_upper, upper_bounds, steps),
     end_dimension |-> Len(upper_bounds)]

\* iter[Symbol.iterator](): a generator that has not run yet.
new_generator == [pc |-> "start", cur |-> 0, i |-> 0]

\* A faulty yield, which hands out the generator's own current_index.
same_object(os, ref) == [os |-> os, ref |-> ref]

\* array.slice(): a new object with the same entries.
copy_of(os, ref) == [os |-> Append(os, os[ref]), ref |-> Len(os) + 1]

RECURSIVE carry(_, _, _)
carry(it, current_index, current_dimension) ==
    IF current_dimension >= 1 /\ current_index[current_dimension] = it.upper[current_dimension]
    THEN LET reset == [current_index EXCEPT ![current_dimension] = it.lower[current_dimension]]
             d == current_dimension - 1
         IN carry(it, IF d >= 1 THEN [reset EXCEPT ![d] = U32(@ + it.steps[d])] ELSE reset, d)
    ELSE current_index

\* A faulty advance, which increments the last axis and never carries.
advance_without_carry(it, current_index) ==
    IF it.end_dimension = 0 THEN current_index
    ELSE [current_index EXCEPT ![it.end_dimension] = U32(@ + 1)]

\* ++current_index[end_dimension], then carry the ones.
advance(it, current_index) ==
    IF it.end_dimension = 0 THEN current_index
    ELSE carry(it, [current_index EXCEPT ![it.end_dimension] = U32(@ + 1)], it.end_dimension)

\* One call of next(): runs the generator body up to its next yield.
generator_next(it, g, os) ==
    CASE g.pc = "start" ->
            LET c == [os |-> Append(os, it.lower), ref |-> Len(os) + 1]
            IN IF 0 < it.size
               THEN LET y == copy_of(c.os, c.ref)
                    IN [g |-> [pc |-> "yielded", cur |-> c.ref, i |-> 0],
                        done |-> FALSE, ref |-> y.ref, os |-> y.os]
               ELSE [g |-> [pc |-> "done", cur |-> c.ref, i |-> 0],
                     done |-> TRUE, ref |-> 0, os |-> c.os]
      [] g.pc = "yielded" ->
            LET os1 == [os EXCEPT ![g.cur] = advance(it, os[g.cur])]
            IN IF g.i + 1 < it.size
               THEN LET y == copy_of(os1, g.cur)
                    IN [g |-> [g EXCEPT !.i = @ + 1],
                        done |-> FALSE, ref |-> y.ref, os |-> y.os]
               ELSE [g |-> [g EXCEPT !.pc = "done", !.i = @ + 1],
                     done |-> TRUE, ref |-> 0, os |-> os1]
      [] OTHER -> [g |-> g, done |-> TRUE, ref |-> 0, os |-> os]

\* for (let index of it): everything one traversal yields, in order.
RECURSIVE drain(_, _, _, _)
drain(it, g, os, acc) ==
    LET r == generator_next(it, g, os)
    IN IF r.done THEN acc ELSE drain(it, r.g, r.os, Append(acc, r.os[r.ref]))

iterate(it) == drain(it, new_generator, <<>>, <<>>)

Front(s) == SubSeq(s, 1, Len(s) - 1)

(***************************************************************************)
(* Index-order iteration over buffer offsets (real_index_iterator).  A     *)
(* traversal that has yielded YieldCap offsets is cut off: no view of the  *)
(* model has that many elements.                                           *)
(***************************************************************************)
YieldCap == MaxExtent * MaxExtent * MaxExtent + 1

\* while (current_index <= end) { yield current_index; current_index += step; }
RECURSIVE sweep(_, _, _, _, _)
sweep(current_index, end, step, has_step, acc) ==
    IF Len(acc) >= YieldCap \/ current_index > end THEN acc
    ELSE IF has_step THEN sweep(current_index + step, end, step, has_step, Append(acc, current_index))
    ELSE Append(acc, current_index)

RECURSIVE sweep_rows(_, _, _, _, _, _, _, _)
sweep_rows(starting_indices, k, index_stride, start, end, step, has_step, acc) ==
    IF k > Len(starting_indices) \/ Len(acc) >= YieldCap THEN acc
    ELSE sweep_rows(starting_indices, k + 1, index_stride, start, end, step, has_step,
                    sweep(dot(starting_indices[k], index_stride) + start, end, step, has_step, acc))

\* stride[stride.length - 1] is undefined for a rank-0 view: the first
\* `current_index += step` gives NaN and the loop ends.
real_index_iterator(lower_or_upper, upper_bounds, steps, stride, initial_offset) ==
    LET upper_inclusive == [i \in 1..Len(upper_bounds) |-> U32(upper_bounds[i] - 1)]
        start == index_in_data(lower_or_upper, stride, initial_offset)
        has_step == Len(stride) > 0
        step == IF has_step THEN stride[Len(stride)] ELSE 0
        end == index_in_data(upper_inclusive, stride, initial_offset)
        index_stride == Front(stride)
        starting_indices == iterate(slice_iterator(Front(lower_or_upper), Front(upper_bounds), Front(steps)))
    IN sweep_rows(starting_indices, 1, index_stride, start, end, step, has_step, <<>>)

RECURSIVE MaxLen(_, _)
MaxLen(iters, n) == IF n = 0 THEN 0 ELSE Max(Len(iters[n]), MaxLen(iters, n - 1))

\* utils.zip_longest: an iterator that is done is started again and its
\* first value taken; the rounds end with the round in which every iterator
\* has been done at least once.  An entry of a result is <<value>>, or <<>>
\* for the undefined that an iterator without values gives.
zip_longest(iters) ==
    [k \in 1..MaxLen(iters, Len(iters)) |->
        [i \in 1..Len(iters) |->
            IF Len(iters[i]) = 0 THEN <<>> ELSE <<iters[i][((k - 1) % Len(iters[i])) + 1]>>]]

\* An entry of a zip used as a number.
number_of(entry) == IF Len(entry) = 0 THEN NaN ELSE entry[1]

(***************************************************************************)
(* Array objects: a plain Array or a typed array, [kind, elems, bad].      *)
(***************************************************************************)
IntKinds == {"Int8Array", "Int16Array", "Int32Array", "Uint8Array", "Uint8ClampedArray",
             "Uint16Array", "Uint32Array"}

Bits(kind) ==
    CASE kind \in {"Int8Array", "Uint8Array", "Uint8ClampedArray"} -> 8
      [] kind \in {"Int16Array", "Uint16Array"} -> 16
      [] OTHER -> 32

\* The element a typed array of `kind` holds after `x` is stored into it.
ToElement(kind, x) ==
    IF kind \notin IntKinds THEN x
    ELSE IF x = NaN THEN 0
    ELSE IF kind = "Uint8ClampedArray" THEN Max(0, Min(255, x))
    ELSE IF kind = "Int32Array" THEN x
    ELSE IF kind = "Uint32Array" THEN U32(x)
    ELSE LET m == x % (2 ^ Bits(kind))
         IN IF kind \in {"Int8Array", "Int16Array"} /\ m >= 2 ^ (Bits(kind) - 1)
            THEN m - 2 ^ Bits(kind)
            ELSE m

\* new array_type(size)
typed_array_of_size(kind, size) == [kind |-> kind, elems |-> Zeros(size), bad |-> {}]

\* new array_type(data): a new object holding the converted elements.
typed_array_from(kind, x) ==
    [kind |-> kind,
     elems |-> [i \in 1..Len(x.elems) |-> ToElement(kind, IF i \in x.bad THEN NaN ELSE x.elems[i])],
     bad |-> {}]

\* data[o]: undefined, shown as NaN, outside the array.
element_at(x, o) == IF o \in 0..(Len(x.elems) - 1) THEN x.elems[o + 1] ELSE NaN

\* data[o] = val: a typed array ignores a store outside its length, a
\* plain Array grows.
store(x, o, val) ==
    IF o \in 0..(Len(x.elems) - 1) THEN [x EXCEPT !.elems[o + 1] = ToElement(x.kind, val)]
    ELSE IF x.kind = "Array" /\ o >= Len(x.elems)
    THEN [x EXCEPT !.elems = [i \in 1..(o + 1) |->
                                IF i <= Len(x.elems) THEN x.elems[i]
                                ELSE IF i = o + 1 THEN val ELSE NaN]]
    ELSE x

(***************************************************************************)
(* The tensor class.  An operation returns [err, heap, view]: the error it *)
(* threw ("none" when it returned), the array objects that exist after it, *)
(* and the tensor it returned.                                             *)
(***************************************************************************)
NoView == [none |-> TRUE]

Throw(e, h) == [err |-> e, heap |-> h, view |-> NoView]

\* new tensor(...): a data argument that is not an instance of dtype's
\* array type is replaced by a new typed array built from it.
tensor(h, data, shape, offset, stride, dstride, size, dtype, is_view, initial_offset) ==
    LET array_type == dtype_map(dtype)
        convert == dtype # "undefined" /\ h[data].kind # array_type
        h1 == IF convert THEN Append(h, typed_array_from(array_type, h[data])) ELSE h
    IN [err |-> "none",
        heap |-> h1,
        view |-> [data |-> IF convert THEN Len(h1) ELSE data,
                  shape |-> shape, offset |-> offset, stride |-> stride,
                  dstride |-> dstride, length |-> size,
                  dtype |-> IF dtype = "undefined" THEN "float64" ELSE dtype,
                  is_view |-> is_view, initial_offset |-> initial_offset]]

\* constructors.array; options is [disable_checks, dtype].
array(h, data, shape, options) ==
    LET given == IF shape.t = "undefined"
                 THEN [t |-> "typed", v |-> <<U32(Len(h[data].elems))>>]
                 ELSE shape
        build(final_shape) ==
            LET stride == stride_from_shape(final_shape)
            IN tensor(h, data, final_shape, Zeros(Len(final_shape)), stride, stride,
                      compute_size(final_shape), options.dtype, FALSE, 0)
    IN IF options.disable_checks
       THEN IF given.t \notin {"typed", "array"} \/ compute_size_throws(given.v)
            THEN Throw("TypeError", h)
            ELSE build(given.v)
       ELSE IF ~is_numeric_array(h[data]) THEN Throw("BadData", h)
       ELSE IF given.t # "null" /\ compute_shape_throws(given) THEN Throw("Error", h)
       ELSE LET final_shape == IF given.t = "null" THEN <<U32(Len(h[data].elems))>>
                               ELSE compute_shape(given)
            IN IF compute_size_throws(final_shape) THEN Throw("TypeError", h)
               ELSE IF compute_size(final_shape) # Len(h[data].elems)
               THEN Throw("MismatchedShapeSize", h)
               ELSE build(final_shape)

\* The loop of from_iterable: the k-th index gets the k-th value of the
\* iterable, or undefined once the iterable is exhausted.
RECURSIVE fill_in_order(_, _, _, _, _)
fill_in_order(x, indices, stride, iterable_values, k) ==
    IF k > Len(indices) THEN x
    ELSE fill_in_order(
            store(x, index_in_data(indices[k], stride, 0),
                  IF k <= Len(iterable_values) THEN iterable_values[k] ELSE NaN),
            indices, stride, iterable_values, k + 1)

from_iterable(h, iterable_values, shape, dtype) ==
    IF compute_shape_throws(shape) THEN Throw("Error", h)
    ELSE LET final_shape == compute_shape(shape)
         IN IF compute_size_throws(final_shape) THEN Throw("TypeError", h)
            ELSE LET size == compute_size(final_shape)
                     index_iterator == slice_iterator(Zeros(Len(final_shape)), final_shape,
                                                      Ones(Len(final_shape)))
                     data == fill_in_order(typed_array_of_size(dtype_map(dtype), size),
                                           iterate(index_iterator),
                                           stride_from_shape(final_shape), iterable_values, 1)
                 IN IF Len(data.elems) # size THEN Throw("MismatchedShapeSize", h)
                    ELSE array(Append(h, data), Len(h) + 1, [t |-> "typed", v |-> final_shape],
                               [disable_checks |-> TRUE, dtype |-> dtype])

\* constructors.filled
filled(h, value, shape, dtype) ==
    IF compute_shape_throws(shape) THEN Throw("Error", h)
    ELSE LET final_shape == compute_shape(shape)
         IN IF compute_size_throws(final_shape) THEN Throw("TypeError", h)
            ELSE LET kind == dtype_map(dtype)
                     data == [kind |-> kind,
                              elems |-> [i \in 1..compute_size(final_shape) |-> ToElement(kind, value)],
                              bad |-> {}]
                 IN array(Append(h, data), Len(h) + 1, [t |-> "typed", v |-> final_shape],
                          [disable_checks |-> TRUE, dtype |-> dtype])

\* A faulty real index, which leaves out the view's initial offset.
real_index_without_offset(v, indices) == index_in_data(indices, v.stride, 0)

_compute_real_index(v, indices) == index_in_data(indices, v.stride, v.initial_offset)

\* The full-range iterators of a tensor (_calculate_slice_bounds with no
\* argument: lower zeros, upper the shape, steps ones).
_iorder_data_iterator(v) ==
    real_index_iterator(Zeros(Len(v.shape)), v.shape, Ones(Len(v.shape)), v.stride, v.initial_offset)

\* tensor._calculate_slice_bounds with all three arguments given.
_calculate_slice_bounds(v, lower_or_upper, upper_bounds, steps) ==
    [lower_bounds |-> lower_or_upper, upper_bounds |-> upper_bounds, steps |-> steps]

\* tensor._iorder_data_iterator(lower, upper, steps)
iorder_data_iterator_within(v, lower_or_upper, upper_bounds, steps) ==
    LET bounds == _calculate_slice_bounds(v, lower_or_upper, upper_bounds, steps)
    IN real_index_iterator(bounds.lower_bounds, bounds.upper_bounds, bounds.steps,
                           v.stride, v.initial_offset)

\* indexing.data_order_iterator: the body is empty, so the call returns
\* undefined.
data_order_iterator(shape) == [t |-> "undefined", v |-> <<>>]

\* tensor._dorder_data_iterator(lower, upper, steps): the arguments after
\* the first are not used by the callee.
_dorder_data_iterator(v, lower_or_upper, upper_bounds, steps) ==
    LET bounds == _calculate_slice_bounds(v, lower_or_upper, upper_bounds, steps)
    IN data_order_iterator(bounds.lower_bounds)

\* [...it]: what a traversal of it yields; undefined is not iterable.
spread(it) ==
    IF it.t = "undefined" THEN [err |-> "TypeError", value |-> <<>>]
    ELSE [err |-> "none", value |-> it.v]

_iorder_index_iterator(v) ==
    iterate(slice_iterator(Zeros(Len(v.shape)), v.shape, Ones(Len(v.shape))))

_iorder_value_iterator(h, v) ==
    LET index_iterator == _iorder_data_iterator(v)
    IN [k \in 1..Len(index_iterator) |-> element_at(h[v.data], index_iterator[k])]

\* utils.fixed_ones(n): a Uint32Array of n ones, as its callers use it for
\* the steps of a traversal.
fixed_ones(n) == [i \in 1..n |-> 1]

\* tensor.nonzero: the indices pushed, in the order of the traversal.
nonzero(h, v) ==
    LET steps == fixed_ones(Len(v.shape))
        index_iterator == iterate(slice_iterator(v.offset, v.shape, steps))
    IN SelectSeq(index_iterator,
                 LAMBDA index : element_at(h[v.data], _compute_real_index(v, index)) # 0)

\* tensor.slice
slice(h, v, indices) ==
    IF Len(indices) = 1 /\ ~is_numeric(indices[1]) /\ indices[1].t = "null"
    THEN Throw("TypeError", h)
    ELSE IF Len(indices) = 1 /\ ~is_numeric(indices[1]) /\ Len(indices[1].a) = 0
    THEN [err |-> "none", heap |-> h, view |-> v]
    ELSE IF \E i \in 1..Len(indices) : indices[i].t = "arr" /\ Len(indices[i].a) \notin {2, 3}
    THEN Throw("Error", h)
    ELSE
    LET positive_indices == convert_negative_indices(indices, v.shape)
        n == Len(v.shape)
        given(i) == i <= Len(positive_indices) /\ positive_indices[i].t # "null"
        start == [i \in 1..n |-> IF given(i) THEN ToUint32(positive_indices[i].a[1]) ELSE 0]
        end == [i \in 1..n |->
                    IF ~given(i) THEN v.shape[i]
                    ELSE IF is_numeric(positive_indices[i]) THEN U32(positive_indices[i].a[1] + 1)
                    ELSE ToUint32(positive_indices[i].a[2])]
        steps == [i \in 1..n |->
                    IF given(i) /\ ~is_numeric(positive_indices[i]) /\ Len(positive_indices[i].a) = 3
                    THEN ToUint32(positive_indices[i].a[3]) ELSE 1]
        dims_to_drop == {i \in 1..n : given(i) /\ is_numeric(positive_indices[i])}
        new_shape == new_shape_from_slice(start, end, steps)
        offset == [j \in 1..n |-> U32(start[j] + v.offset[j])]
        stride == [j \in 1..n |-> U32(steps[j] * v.stride[j])]
        initial_offset == v.initial_offset + SumTo(n, [j \in 1..n |-> start[j] * v.stride[j]])
        filt == (1..n) \ dims_to_drop
    IN IF compute_size_throws(new_shape) THEN Throw("TypeError", h)
       ELSE tensor(h, v.data, Filter(new_shape, filt, 1), Filter(offset, filt, 1),
                   Filter(stride, filt, 1), Filter(v.dstride, filt, 1),
                   compute_size(new_shape), v.dtype, TRUE, initial_offset)

\* tensor.squeeze: the constructor is called without initial_offset.
squeeze(h, v) ==
    LET kept == {i \in 1..Len(v.shape) : v.shape[i] > 1}
        flattened_shape == Filter(v.shape, kept, 1)
        new_stride == Filter(v.stride, kept, 1)
    IN IF compute_size_throws(flattened_shape) THEN Throw("TypeError", h)
       ELSE tensor(h, v.data, flattened_shape, Filter(v.offset, kept, 1), new_stride, new_stride,
                   compute_size(flattened_shape), v.dtype, TRUE, 0)

\* tensor.g with scalar indices: the value read, NaN for undefined.
g_throws(v, indices) == Len(indices) # Len(v.shape)
g(h, v, indices) ==
    LET positive_indices == convert_negative_indices(indices, v.shape)
    IN element_at(h[v.data],
                  _compute_real_index(v, [i \in 1..Len(indices) |-> positive_indices[i].a[1]]))

\* A broadcastable value is [t |-> "num", n], [t |-> "typed", data] (a typed
\* array of the heap) or [t |-> "tensor", view].
_upcast_to_tensor(h, value) ==
    IF value.t = "num"
    THEN array(Append(h, [kind |-> "Float64Array", elems |-> <<value.n>>, bad |-> {}]),
               Len(h) + 1, [t |-> "typed", v |-> <<1>>],
               [disable_checks |-> TRUE, dtype |-> "undefined"])
    ELSE IF value.t = "typed"
    THEN array(h, value.data, [t |-> "typed", v |-> <<Len(h[value.data].elems)>>],
               [disable_checks |-> TRUE, dtype |-> "undefined"])
    ELSE [err |-> "none", heap |-> h, view |-> value.view]

\* view.data[a_index] = b_array.data[b_index] for each pair of the zip.
RECURSIVE assign_pairs(_, _, _, _, _)
assign_pairs(h, a_data, b_data, pairs, k) ==
    IF k > Len(pairs) THEN h
    ELSE assign_pairs([h EXCEPT ![a_data] = store(@, number_of(pairs[k][1]),
                                                  element_at(h[b_data], number_of(pairs[k][2])))],
                      a_data, b_data, pairs, k + 1)

\* A faulty s, which writes the values through the sub-view before it looks
\* at the shapes.
s_unchecked(h, v, values, indices) ==
    LET sl == slice(h, v, indices)
        up == _upcast_to_tensor(sl.heap, values)
    IN IF sl.err # "none" THEN sl
       ELSE IF up.err # "none" THEN up
       ELSE LET written == assign_pairs(up.heap, sl.view.data, up.view.data,
                                        zip_longest(<<_iorder_data_iterator(sl.view),
                                                      _iorder_data_iterator(up.view)>>), 1)
                difference == Len(sl.view.shape) - Len(up.view.shape)
            IN IF difference < 0 THEN Throw("Error", written)
               ELSE IF \E i \in 1..Len(up.view.shape) :
                            /\ up.view.shape[i] # sl.view.shape[i + difference]
                            /\ up.view.shape[i] # 1
               THEN Throw("Error", written)
               ELSE [err |-> "none", heap |-> written, view |-> NoView]

\* tensor.s
s(h, v, values, indices) ==
    IF checks_indices_are_single_index(indices) /\ Len(indices) = Len(v.shape)
    THEN IF values.t # "num" \/ values.n = NaN THEN Throw("Error", h)
         ELSE LET positive_indices == convert_negative_indices(indices, v.shape)
                  real_index == _compute_real_index(v, [i \in 1..Len(indices) |-> positive_indices[i].a[1]])
              IN [err |-> "none", heap |-> [h EXCEPT ![v.data] = store(@, real_index, values.n)],
                  view |-> NoView]
    ELSE LET sl == slice(h, v, indices)
         IN IF sl.err # "none" THEN sl
            ELSE LET up == _upcast_to_tensor(sl.heap, values)
                     view == sl.view
                     b_array == up.view
                     difference == Len(view.shape) - Len(b_array.shape)
                 IN IF up.err # "none" THEN up
                    ELSE IF difference < 0 THEN Throw("Error", up.heap)
                    ELSE IF \E i \in 1..Len(b_array.shape) :
                                /\ b_array.shape[i] # view.shape[i + difference]
                                /\ b_array.shape[i] # 1
                    THEN Throw("Error", up.heap)
                    ELSE [err |-> "none",
                          heap |-> assign_pairs(up.heap, view.data, b_array.data,
                                                zip_longest(<<_iorder_data_iterator(view),
                                                              _iorder_data_iterator(b_array)>>), 1),
                          view |-> NoView]

\* transformations._reshape; new_shape is the sequence of extents asked for.
_reshape(h, a, new_shape) ==
    IF compute_size_throws(new_shape) \/ compute_size_throws(a.shape) THEN Throw("TypeError", h)
    ELSE IF compute_size(a.shape) # compute_size([i \in 1..Len(new_shape) |-> U32(new_shape[i])])
    THEN Throw("Error", h)
    ELSE from_iterable(h, _iorder_value_iterator(h, a),
                       [t |-> "typed", v |-> [i \in 1..Len(new_shape) |-> U32(new_shape[i])]], a.dtype)

\* A faulty flatten, which returns a tensor on a's own buffer.
flatten_on_same_buffer(h, a) ==
    array(h, a.data, [t |-> "typed", v |-> <<U32(a.length)>>],
          [disable_checks |-> TRUE, dtype |-> a.dtype])

\* transformations._flatten
_flatten(h, a) ==
    from_iterable(h, _iorder_value_iterator(h, a), [t |-> "typed", v |-> <<U32(a.length)>>], a.dtype)

\* constructors.zeros
zeros(h, shape, dtype) ==
    IF compute_shape_throws(shape) THEN Throw("Error", h)
    ELSE IF compute_size_throws(compute_shape(shape)) THEN Throw("TypeError", h)
    ELSE array(Append(h, typed_array_of_size(dtype_map(dtype), compute_size(compute_shape(shape)))),
               Len(h) + 1, [t |-> "typed", v |-> compute_shape(shape)],
               [disable_checks |-> TRUE, dtype |-> dtype])

\* Array.prototype.reverse
reverse(a) == [i \in 1..Len(a) |-> a[Len(a) + 1 - i]]

\* The loop of _transpose: new_array.s(a.g(...index), ...index.reverse())
\* for each index of a; r is the state so far, [err, heap, view].
RECURSIVE transpose_loop(_, _, _, _, _)
transpose_loop(r, a, new_array, indices, k) ==
    IF k > Len(indices) \/ r.err # "none" THEN r
    ELSE transpose_loop(
            s(r.heap, new_array,
              [t |-> "num", n |-> g(r.heap, a, [i \in 1..Len(indices[k]) |-> Num(indices[k][i])])],
              [i \in 1..Len(indices[k]) |-> Num(reverse(indices[k])[i])]),
            a, new_array, indices, k + 1)

transpose_return(made_array, done) ==
    IF done.err # "none" THEN done ELSE [made_array EXCEPT !.heap = done.heap]

transpose_filled(made_array, a) ==
    IF made_array.err # "none" THEN made_array
    ELSE transpose_return(made_array,
                          transpose_loop(made_array, a, made_array.view, _iorder_index_iterator(a), 1))

\* transformations._transpose
_transpose(h, a) == transpose_filled(zeros(h, [t |-> "typed", v |-> reverse(a.shape)], a.dtype), a)

\* utils._dtype_join: the position of each dtype in the ordering, -1 if it
\* has none, and the first dtype of the group after a shared one.
dtype_group(dtype) ==
    CASE dtype \in {"int8", "uint8", "uint8c"} -> 0
      [] dtype \in {"int16", "uint16"} -> 1
      [] dtype \in {"int32", "uint32", "float32"} -> 2
      [] dtype = "float64" -> 3
      [] OTHER -> 0 - 1

_dtype_join(a, b) ==
    IF a = b THEN a
    ELSE IF dtype_group(a) = dtype_group(b)
    THEN (CASE dtype_group(a) = 0 - 1 -> "int8"
            [] dtype_group(a) = 0 -> "int16"
            [] dtype_group(a) = 1 -> "int32"
            [] OTHER -> "float64")
    ELSE IF dtype_group(a) < dtype_group(b) THEN b
    ELSE a

\* _broadcast_by_index for two tensors: the triples [a_val, b_val, index]
\* its iterator yields, from the zip of a's offsets, b's offsets and the
\* indices of the broadcast shape.
_broadcast_by_index(h, a_array, b_array) ==
    LET new_dimensions == calculate_broadcast_dimensions(a_array.shape, b_array.shape)
        index_iter == iterate(slice_iterator(Zeros(Len(new_dimensions)), new_dimensions,
                                             Ones(Len(new_dimensions))))
        iterator == zip_longest(<<_iorder_data_iterator(a_array), _iorder_data_iterator(b_array),
                                  index_iter>>)
    IN [iter |-> [k \in 1..Len(iterator) |->
                    [a_val |-> element_at(h[a_array.data], number_of(iterator[k][1])),
                     b_val |-> element_at(h[b_array.data], number_of(iterator[k][2])),
                     index |-> iterator[k][3]]],
        shape |-> new_dimensions,
        dtype |-> _dtype_join(a_array.dtype, b_array.dtype)]

\* The function passed to _binary_broadcast, (x, y) => x + y throughout.
f(a_val, b_val) == IF a_val = NaN \/ b_val = NaN THEN NaN ELSE a_val + b_val

\* The loop of _binary_broadcast: new_array.s(f(a_val, b_val), ...index) for
\* each triple; r is the state so far, [err, heap, view].
RECURSIVE apply_in_order(_, _, _, _)
apply_in_order(r, new_array, iter, k) ==
    IF k > Len(iter) \/ r.err # "none" THEN r
    ELSE IF Len(iter[k].index) = 0 THEN Throw("TypeError", r.heap)
    ELSE apply_in_order(
            s(r.heap, new_array, [t |-> "num", n |-> f(iter[k].a_val, iter[k].b_val)],
              [i \in 1..Len(iter[k].index[1]) |-> Num(iter[k].index[1][i])]),
            new_array, iter, k + 1)

\* The end of _binary_broadcast: new_array is returned once the loop is over.
broadcast_return(made_array, done) ==
    IF done.err # "none" THEN done
    ELSE [err |-> "none", heap |-> done.heap, view |-> made_array.view]

\* The loop of _binary_broadcast over the triples, into new_array.
broadcast_loop(made_array, iter) ==
    IF made_array.err # "none" THEN made_array
    ELSE broadcast_return(made_array, apply_in_order(made_array, made_array.view, iter, 1))

\* new_array = tensor.filled(0, shape, dtype) for the [iter, shape, dtype]
\* of _broadcast_by_index.
broadcast_filled(h, bc) ==
    broadcast_loop(filled(h, 0, [t |-> "typed", v |-> bc.shape], bc.dtype), bc.iter)

\* _binary_broadcast for two tensors and no forced dtype.
_binary_broadcast(h, a, b) ==
    IF calculate_broadcast_throws(a.shape, b.shape) THEN Throw("BadShape", h)
    ELSE broadcast_filled(h, _broadcast_by_index(h, a, b))

(***************************************************************************)
(* Matrix multiplication.                                                  *)
(***************************************************************************)
RECURSIVE MinLen(_, _)
MinLen(iters, n) == IF n = 1 THEN Len(iters[1]) ELSE Min(Len(iters[n]), MinLen(iters, n - 1))

\* utils.zip_iterable: rounds of one value from each iterator, until the
\* round in which one of them is done.
zip_iterable(iters) ==
    [k \in 1..MinLen(iters, Len(iters)) |-> [i \in 1..Len(iters) |-> iters[i][k]]]

\* The loop of tensor.dot: acc += a_val * b_val, NaN once a value is
\* undefined or NaN.
RECURSIVE dot_loop(_, _, _)
dot_loop(pairs, k, acc) ==
    IF k > Len(pairs) THEN acc
    ELSE dot_loop(pairs, k + 1,
                  IF acc = NaN \/ pairs[k][1] = NaN \/ pairs[k][2] = NaN THEN NaN
                  ELSE acc + pairs[k][1] * pairs[k][2])

\* tensor.dot
tensor_dot(h, a, b) ==
    dot_loop(zip_iterable(<<_iorder_value_iterator(h, a), _iorder_value_iterator(h, b)>>), 1, 0)

\* The body of the loops of matmul_2d: the dot product of a.slice(i) and
\* b.slice(null, j).  The buffers the two slices may allocate are not
\* reachable after the call and are left out of the heap.
dot_of_slices(sa, sb) == tensor_dot(sb.heap, sa.view, sb.view)
dot_after_slice(sa, b, j) == dot_of_slices(sa, slice(sa.heap, b, <<NullIndex, Num(j)>>))
matmul_entry(h, a, b, i, j) == dot_after_slice(slice(h, a, <<Num(i)>>), b, j)

\* tensor.matmul_2d
matmul_2d(h, a, b) ==
    from_iterable(h,
                  [k \in 1..(a.shape[1] * b.shape[2]) |->
                      matmul_entry(h, a, b, (k - 1) \div b.shape[2], (k - 1) % b.shape[2])],
                  [t |-> "typed", v |-> <<a.shape[1], b.shape[2]>>], "undefined")

(***************************************************************************)
(* Nested arrays and JSON.  A nested array is [t |-> "arr", items], its    *)
(* items nested arrays or numbers [t |-> "num", n].                        *)
(***************************************************************************)
EmptyArray == [t |-> "arr", items |-> <<>>]

\* The body of the loop of to_nested_array for one index: the subarrays on
\* the way are created when they are not there, and the last one gets the
\* value at index[index.length - 1].
RECURSIVE nested_put(_, _, _, _)
nested_put(arr, index, d, value) ==
    [arr EXCEPT !.items =
        IF index[d] + 1 <= Len(@)
        THEN [@ EXCEPT ![index[d] + 1] =
                IF d = Len(index) THEN [t |-> "num", n |-> value]
                ELSE nested_put(@, index, d + 1, value)]
        ELSE Append(@, IF d = Len(index) THEN [t |-> "num", n |-> value]
                       ELSE nested_put(EmptyArray, index, d + 1, value))]

\* The loop of to_nested_array.  For the empty index of a rank-0 view the
\* value becomes the property "undefined" of the array, not an element.
RECURSIVE nested_fill(_, _, _, _, _)
nested_fill(arr, h, v, indices, k) ==
    IF k > Len(indices) THEN arr
    ELSE nested_fill(
            IF Len(indices[k]) = 0 THEN arr
            ELSE nested_put(arr, indices[k], 1,
                            g(h, v, [i \in 1..Len(indices[k]) |-> Num(indices[k][i])])),
            h, v, indices, k + 1)

\* tensor.to_nested_array
to_nested_array(h, v) == nested_fill(EmptyArray, h, v, _iorder_index_iterator(v), 1)

\* tensor.to_json
to_json(h, v) == [data |-> to_nested_array(h, v), shape |-> v.shape, dtype |-> v.dtype]

\* utils._nested_array_shape: the length of the array, of its first item,
\* and so on down to the numbers.
RECURSIVE _nested_array_shape(_)
_nested_array_shape(arr) ==
    IF arr.t # "arr" THEN <<>>
    ELSE <<Len(arr.items)>> \o (IF Len(arr.items) = 0 THEN <<>> ELSE _nested_array_shape(arr.items[1]))

\* utils._nested_array_value_from_index: arr[i_1][i_2]...[i_n]
RECURSIVE _nested_array_value_from_index(_, _)
_nested_array_value_from_index(arr, indices) ==
    IF Len(indices) = 0 THEN arr.n
    ELSE _nested_array_value_from_index(arr.items[indices[1] + 1], Tail(indices))

\* The loop of from_nested_array on the data object x of ndarray.
RECURSIVE from_nested_loop(_, _, _, _, _)
from_nested_loop(x, ndarray, arr, indices, k) ==
    IF k > Len(indices) THEN x
    ELSE from_nested_loop(store(x, _compute_real_index(ndarray, indices[k]),
                                _nested_array_value_from_index(arr, indices[k])),
                          ndarray, arr, indices, k + 1)

from_nested_filled(made_array, arr) ==
    IF made_array.err # "none" THEN made_array
    ELSE [made_array EXCEPT !.heap[made_array.view.data] =
            from_nested_loop(@, made_array.view, arr,
                             iterate(slice_iterator(Zeros(Len(made_array.view.shape)),
                                                    made_array.view.shape,
                                                    Ones(Len(made_array.view.shape)))), 1)]

from_nested_sized(h, arr, dimensions, dtype) ==
    from_nested_filled(
        array(Append(h, typed_array_of_size(dtype_map(dtype), compute_size(dimensions))),
              Len(h) + 1, [t |-> "typed", v |-> dimensions],
              [disable_checks |-> TRUE, dtype |-> dtype]),
        arr)

\* constructors.from_nested_array
from_nested_array(h, arr, dtype) ==
    IF Len(arr.items) = 0
    THEN array(Append(h, [kind |-> "Array", elems |-> <<>>, bad |-> {}]), Len(h) + 1,
               [t |-> "undefined", v |-> <<>>], [disable_checks |-> FALSE, dtype |-> "undefined"])
    ELSE from_nested_sized(h, arr, _nested_array_shape(arr), dtype)

\* constructors.from_json
from_json(h, json) == from_nested_array(h, json.data, json.dtype)

\* tensor._equal_data on two arrays: the same length and e === array2[i]
\* for every element.
_equal_data(array1, array2) ==
    /\ Len(array1) = Len(array2)
    /\ \A i \in 1..Len(array1) : array1[i] = array2[i]

\* tensor.equals
equals(h, array1, array2) ==
    /\ array1.length = array2.length
    /\ _equal_data(array1.shape, array2.shape)
    /\ _equal_data(array1.offset, array2.offset)
    /\ _equal_data(array1.stride, array2.stride)
    /\ _equal_data(array1.dstride, array2.dstride)
    /\ array1.initial_offset = array2.initial_offset
    /\ array1.dtype = array2.dtype
    /\ _equal_data(h[array1.data].elems, h[array2.data].elems)

(***************************************************************************)
(* Specification Spec: a fresh view and the views derived from it by a     *)
(* chain of slice and squeeze calls with in-range arguments.               *)
(***************************************************************************)
BaseShapes ==
    {<<e>> : e \in 0..MaxExtent} \cup {<<e1, e2>> : e1 \in 0..MaxExtent, e2 \in 0..MaxExtent}

\* The in-range index arguments for an axis of extent e.
Ranges(e) == {r \in (0..e) \X (0..e) : r[1] <= r[2]}

AxisArgs(e) ==
    {NullIndex}
        \cup {Num(k) : k \in 0..(e - 1)}
        \cup {Arr(r) : r \in Ranges(e)}
        \cup {Arr(<<r[1], r[2], st>>) : r \in Ranges(e), st \in 2..MaxStep}

RECURSIVE ArgLists(_, _)
ArgLists(shape, n) ==
    IF n = 0 THEN {<<>>}
    ELSE LET shorter == ArgLists(shape, n - 1)
         IN shorter \cup {Append(p, x) : p \in {q \in shorter : Len(q) = n - 1}, x \in AxisArgs(shape[n])}

Iota(n) == [k \in 1..n |-> k - 1]

\* numts.arange(size).reshape(shape): from_iterable with dtype int32.
FreshFromIterable(h, shape) ==
    from_iterable(h, Iota(compute_size(shape)), [t |-> "typed", v |-> shape], "int32")

\* numts.array(data, shape, {dtype}) for data = [0, 1, ...] held in an array
\* object of the given kind.
FreshArray(h, kind, shape, dtype) ==
    array(Append(h, [kind |-> kind, elems |-> Iota(compute_size(shape)), bad |-> {}]), Len(h) + 1,
          [t |-> "typed", v |-> shape], [disable_checks |-> FALSE, dtype |-> dtype])

Made(op, parent, args) == [op |-> op, parent |-> parent, args |-> args]

NoIterable == slice_iterator(<<>>, <<>>, <<>>)
NoCall == [fn |-> "none"]

Init ==
    /\ \E shape \in BaseShapes :
        \E r \in {FreshFromIterable(<<>>, shape), FreshArray(<<>>, "Array", shape, "undefined")} :
            /\ heap = r.heap
            /\ views = <<r.view>>
    /\ made = <<Made("new", 0, <<>>)>>
    /\ last = [op |-> "new", args |-> <<>>, err |-> "none", parent |-> 0]
    /\ iterable = NoIterable
    /\ objs = <<>>
    /\ gens = <<>>
    /\ call = NoCall

\* v.slice(...indices) on the newest view.
Slice ==
    /\ Len(views) <= MaxDepth
    /\ \E indices \in ArgLists(views[Len(views)].shape, Len(views[Len(views)].shape)) :
        LET r == slice(heap, views[Len(views)], indices)
        IN /\ heap' = r.heap
           /\ views' = IF r.err = "none" THEN Append(views, r.view) ELSE views
           /\ made' = IF r.err = "none" THEN Append(made, Made("slice", Len(views), indices)) ELSE made
           /\ last' = [op |-> "slice", args |-> indices, err |-> r.err, parent |-> Len(views)]
    /\ UNCHANGED <<iterable, objs, gens, call>>

\* v.squeeze() on the newest view.
Squeeze ==
    /\ Len(views) <= MaxDepth
    /\ LET r == squeeze(heap, views[Len(views)])
       IN /\ heap' = r.heap
          /\ views' = IF r.err = "none" THEN Append(views, r.view) ELSE views
          /\ made' = IF r.err = "none" THEN Append(made, Made("squeeze", Len(views), <<>>)) ELSE made
          /\ last' = [op |-> "squeeze", args |-> <<>>, err |-> r.err, parent |-> Len(views)]
    /\ UNCHANGED <<iterable, objs, gens, call>>

\* numts.from_json(v.to_json()) for the newest view v.
RoundTrip ==
    /\ Len(views) <= MaxDepth
    /\ LET r == from_json(heap, to_json(heap, views[Len(views)]))
       IN /\ heap' = r.heap
          /\ views' = IF r.err = "none" THEN Append(views, r.view) ELSE views
          /\ made' = IF r.err = "none" THEN Append(made, Made("from_json", Len(views), <<>>)) ELSE made
          /\ last' = [op |-> "from_json", args |-> <<>>, err |-> r.err, parent |-> Len(views)]
    /\ UNCHANGED <<iterable, objs, gens, call>>

Next == Slice \/ Squeeze \/ RoundTrip

Spec == Init /\ [][Next]_vars

(***************************************************************************)
(* Properties of the view chain.                                           *)
(***************************************************************************)
\* Every valid logical index of a shape.
AllIndices(shape) ==
    {idx \in [1..Len(shape) -> 0..MaxExtent] : \A i \in 1..Len(shape) : idx[i] < shape[i]}

\* The element of v at the logical index idx, as v.g(...idx) reads it.
At(h, v, idx) == g(h, v, [i \in 1..Len(idx) |-> Num(idx[i])])

\* What an argument list asks of axis i of the sliced view.
Asked(indices, i) == i <= Len(indices) /\ indices[i].t # "null"
Pinned(indices, n) == {i \in 1..n : Asked(indices, i) /\ indices[i].t = "num"}
StartOf(indices, i) == IF Asked(indices, i) THEN indices[i].a[1] ELSE 0
StepOf(indices, i) ==
    IF Asked(indices, i) /\ indices[i].t = "arr" /\ Len(indices[i].a) = 3 THEN indices[i].a[3] ELSE 1

\* The index of v that index j of v.slice(...indices) stands for.
SourceIndex(indices, n, j) ==
    [i \in 1..n |->
        IF i \in Pinned(indices, n) THEN indices[i].a[1]
        ELSE StartOf(indices, i) + j[Cardinality((1..i) \ Pinned(indices, n))] * StepOf(indices, i)]

\* C1: a slice with in-range, non-negative arguments (null, scalar, [start,
\* stop) or [start, stop, step) per axis) returns a view r whose element at
\* every index j is the element of the sliced view at start + j*step on the
\* surviving axes and at k on the pinned axes, and whose rank is the rank of
\* the sliced view less the pinned axes.
C1_SliceSelectsElements ==
    last.op = "slice" =>
        /\ last.err = "none"
        /\ LET v == views[last.parent]
               r == views[last.parent + 1]
               n == Len(v.shape)
           IN /\ Len(r.shape) = n - Cardinality(Pinned(last.args, n))
              /\ \A j \in AllIndices(r.shape) :
                    At(heap, r, j) = At(heap, v, SourceIndex(last.args, n, j))

\* C3: every valid logical index of every view reached by in-range slice and
\* squeeze calls maps to an offset inside the view's buffer.
C3_OffsetsInsideBuffer ==
    \A k \in 1..Len(views) : \A idx \in AllIndices(views[k].shape) :
        _compute_real_index(views[k], idx) \in 0..(Len(heap[views[k].data].elems) - 1)

\* C4: over the full range of every view, index-order offset iteration
\* yields, value for value, _compute_real_index of what index-order index
\* iteration yields, and as many values.
C4_OffsetsFollowIndices ==
    \A k \in 1..Len(views) :
        LET indices == _iorder_index_iterator(views[k])
        IN _iorder_data_iterator(views[k]) =
                [m \in 1..Len(indices) |-> _compute_real_index(views[k], indices[m])]

(***************************************************************************)
(* Specification SpecAlias: views that may share a buffer, and the calls   *)
(* that write through them (s) or rebuild them (reshape).  The heap starts *)
(* with two typed arrays that calls of s pass as values.                   *)
(***************************************************************************)
MaxOps == 2         \* calls made on the views after the fresh one

AliasShapes == {<<4>>, <<2, 2>>}

ValueArrays ==
    <<[kind |-> "Float64Array", elems |-> <<8, 9>>, bad |-> {}],
      [kind |-> "Float64Array", elems |-> <<8, 9, 9>>, bad |-> {}]>>

\* The ways the fresh view is constructed.
FreshViews(shape) ==
    {FreshFromIterable(ValueArrays, shape),
     FreshArray(ValueArrays, "Array", shape, "undefined"),
     FreshArray(ValueArrays, "Int32Array", shape, "undefined"),
     FreshArray(ValueArrays, "Array", shape, "float64")}

\* Some in-range index arguments for an axis of extent e.
AliasAxisArgs(e) ==
    {NullIndex, Arr(<<0, e>>)}
        \cup (IF e >= 1 THEN {Num(0), Num(e - 1), Arr(<<1, e>>)} ELSE {})

RECURSIVE AliasArgLists(_, _)
AliasArgLists(shape, n) ==
    IF n = 0 THEN {<<>>}
    ELSE LET shorter == AliasArgLists(shape, n - 1)
         IN shorter \cup {Append(p, x) : p \in {q \in shorter : Len(q) = n - 1},
                                         x \in AliasAxisArgs(shape[n])}

\* numts.array(a, [2, 1], {dtype: 'float64'}) for the first typed array a: a
\* tensor of shape (2, 1) on that array.
ColumnValue ==
    array(ValueArrays, 1, [t |-> "typed", v |-> <<2, 1>>],
          [disable_checks |-> FALSE, dtype |-> "float64"]).view

\* The values a call of s passes: a number, one of the typed arrays, the
\* fresh tensor, or the tensor of shape (2, 1).
SetValues ==
    {[t |-> "num", n |-> 7], [t |-> "typed", data |-> 1], [t |-> "typed", data |-> 2],
     [t |-> "tensor", view |-> views[1]], [t |-> "tensor", view |-> ColumnValue]}

InitAlias ==
    /\ \E shape \in AliasShapes : \E r \in FreshViews(shape) :
        /\ heap = r.heap
        /\ views = <<r.view>>
    /\ made = <<Made("new", 0, <<>>)>>
    /\ last = [op |-> "new", args |-> <<>>, err |-> "none", parent |-> 0, seq |-> 0]
    /\ iterable = NoIterable
    /\ objs = <<>>
    /\ gens = <<>>
    /\ call = NoCall

\* views[p].slice(...indices)
AliasSlice ==
    /\ last.seq < MaxOps
    /\ \E p \in 1..Len(views) : \E indices \in AliasArgLists(views[p].shape, Len(views[p].shape)) :
        LET r == slice(heap, views[p], indices)
        IN /\ heap' = r.heap
           /\ views' = IF r.err = "none" THEN Append(views, r.view) ELSE views
           /\ made' = IF r.err = "none" THEN Append(made, Made("slice", p, indices)) ELSE made
           /\ last' = [op |-> "slice", args |-> indices, err |-> r.err, parent |-> p,
                       seq |-> last.seq + 1]
    /\ UNCHANGED <<iterable, objs, gens, call>>

\* views[p].s(value, ...indices)
AliasSet ==
    /\ last.seq < MaxOps
    /\ \E p \in 1..Len(views) : \E indices \in AliasArgLists(views[p].shape, Len(views[p].shape)) :
        \E value \in SetValues :
            LET r == s(heap, views[p], value, indices)
            IN /\ heap' = r.heap
               /\ last' = [op |-> "s", args |-> <<value, indices>>, err |-> r.err, parent |-> p,
                           seq |-> last.seq + 1]
    /\ UNCHANGED <<views, made, iterable, objs, gens, call>>

\* views[p].reshape(new_shape)
AliasReshape ==
    /\ last.seq < MaxOps
    /\ \E p \in 1..Len(views) : \E new_shape \in {<<4>>, <<2, 2>>, <<2>>, <<3, 2>>} :
        LET r == _reshape(heap, views[p], new_shape)
        IN /\ heap' = r.heap
           /\ views' = IF r.err = "none" THEN Append(views, r.view) ELSE views
           /\ made' = IF r.err = "none" THEN Append(made, Made("reshape", p, new_shape)) ELSE made
           /\ last' = [op |-> "reshape", args |-> new_shape, err |-> r.err, parent |-> p,
                       seq |-> last.seq + 1]
    /\ UNCHANGED <<iterable, objs, gens, call>>

NextAlias == AliasSlice \/ AliasSet \/ AliasReshape

SpecAlias == InitAlias /\ [][NextAlias]_vars

\* C2: a slice holds the very buffer object of the view it was taken from,
\* however that view was constructed, so that at any time, whatever has been
\* set through either, each element of the slice is the element of the source
\* at the corresponding index.
C2_SliceSharesBuffer ==
    \A k \in 1..Len(views) :
        made[k].op = "slice" =>
            LET v == views[made[k].parent]
                n == Len(v.shape)
            IN /\ views[k].data = v.data
               /\ \A j \in AllIndices(views[k].shape) :
                    At(heap, views[k], j) = At(heap, v, SourceIndex(made[k].args, n, j))

\* C8: a call of s or reshape that fails leaves every tensor, and the
\* contents of every array object that existed before the call, as they were.
C8_FailedCallChangesNothing ==
    [][(last'.op \in {"s", "reshape"} /\ last'.err # "none") =>
            /\ views' = views
            /\ \A i \in 1..Len(heap) : heap'[i] = heap[i]]_vars

\* A call of s with a range index has failed on a view whose buffer an
\* earlier call had written.
C8_Witness ==
    /\ last.op = "s"
    /\ last.err = "Error"
    /\ ~checks_indices_are_single_index(last.args[2])
    /\ \E i \in 1..Len(heap) : \E o \in 1..Len(heap[i].elems) : heap[i].elems[o] = 7

(***************************************************************************)
(* Specification SpecIter: one iterable made by slice_iterator and two     *)
(* consumers, each driving its own generator one next() at a time; a       *)
(* consumer may overwrite an entry of the tuple it was handed last, and    *)
(* the first consumer may traverse the iterable again.                     *)
(***************************************************************************)
MaxBound == 2       \* largest upper bound of an axis of the iterated box
MaxRuns == 2        \* traversals the first consumer makes

Boxes ==
    UNION {{b \in [lower : [1..n -> 0..MaxBound], upper : [1..n -> 0..MaxBound],
                   steps : [1..n -> 1..MaxStep]] :
                \A i \in 1..n : b.lower[i] <= b.upper[i]} : n \in 0..2}

NewConsumer(runs) ==
    [gen |-> new_generator, got |-> <<>>, held |-> <<>>, done |-> FALSE, runs |-> runs, muts |-> 0]

InitIter ==
    /\ \E b \in Boxes : iterable = slice_iterator(b.lower, b.upper, b.steps)
    /\ objs = <<>>
    /\ gens = <<NewConsumer(1), NewConsumer(1)>>
    /\ heap = <<>>
    /\ views = <<>>
    /\ made = <<>>
    /\ last = [op |-> "new", args |-> <<>>, err |-> "none", parent |-> 0]
    /\ call = NoCall

\* Consumer c calls next() on its generator.
IterNext(c) ==
    /\ ~gens[c].done
    /\ LET r == generator_next(iterable, gens[c].gen, objs)
       IN /\ objs' = r.os
          /\ gens' = [gens EXCEPT ![c] =
                        IF r.done THEN [@ EXCEPT !.gen = r.g, !.done = TRUE]
                        ELSE [@ EXCEPT !.gen = r.g,
                                       !.got = Append(@, r.os[r.ref]),
                                       !.held = Append(@, r.ref)]]
    /\ UNCHANGED <<heap, views, made, last, iterable, call>>

\* Consumer c overwrites entry d of the tuple it was handed last.
IterMutate(c) ==
    /\ gens[c].muts = 0
    /\ Len(gens[c].held) > 0
    /\ \E d \in 1..iterable.end_dimension :
        LET ref == gens[c].held[Len(gens[c].held)]
        IN /\ objs[ref][d] # iterable.upper[d]
           /\ objs' = [objs EXCEPT ![ref][d] = iterable.upper[d]]
    /\ gens' = [gens EXCEPT ![c].muts = 1]
    /\ UNCHANGED <<heap, views, made, last, iterable, call>>

\* The first consumer, its traversal finished, starts another one.
IterAgain ==
    /\ gens[1].done
    /\ gens[1].runs < MaxRuns
    /\ gens' = [gens EXCEPT ![1] = [NewConsumer(gens[1].runs + 1) EXCEPT !.muts = gens[1].muts]]
    /\ UNCHANGED <<heap, views, made, last, iterable, objs, call>>

NextIter == (\E c \in 1..2 : IterNext(c)) \/ (\E c \in 1..2 : IterMutate(c)) \/ IterAgain

SpecIter == InitIter /\ [][NextIter]_vars

IsPrefix(p, q) == Len(p) <= Len(q) /\ p = SubSeq(q, 1, Len(p))

\* The integer tuples of the box [lower, upper) in lexicographic order, the
\* last axis varying fastest: the k-th is k written in mixed radix.
LexBox(lower, upper) ==
    LET n == Len(upper)
        extent == [i \in 1..n |-> upper[i] - lower[i]]
        below(d) == ProdTo(n, [i \in 1..n |-> IF i > d THEN extent[i] ELSE 1])
    IN [k \in 1..ProdTo(n, extent) |->
            [d \in 1..n |-> lower[d] + (((k - 1) \div below(d)) % extent[d])]]

\* C5: with all steps 1 a traversal yields the tuples of the box [lower,
\* upper) in lexicographic order, last axis fastest, each exactly once, and
\* then is done.
C5_LexicographicOrder ==
    (\A i \in 1..Len(iterable.steps) : iterable.steps[i] = 1) =>
        \A c \in 1..Len(gens) :
            /\ IsPrefix(gens[c].got, LexBox(iterable.lower, iterable.upper))
            /\ gens[c].done => gens[c].got = LexBox(iterable.lower, iterable.upper)

\* A traversal of the box [0, 2) x [0, 2) has ended, having carried once.
C5_Witness ==
    /\ iterable.lower = <<0, 0>> /\ iterable.upper = <<2, 2>> /\ iterable.steps = <<1, 1>>
    /\ gens[1].done
    /\ gens[1].got = <<(<<0, 0>>), (<<0, 1>>), (<<1, 0>>), (<<1, 1>>)>>

\* C6: every traversal of the iterable, whichever consumer makes it, however
\* the next() calls interleave and whatever is done to the tuples handed out,
\* yields what a traversal on its own yields, from the lower bound on.
C6_TraversalsIndependent ==
    \A c \in 1..Len(gens) :
        /\ IsPrefix(gens[c].got, iterate(iterable))
        /\ gens[c].done => gens[c].got = iterate(iterable)
        /\ Len(gens[c].got) > 0 => gens[c].got[1] = iterable.lower

\* The first consumer has finished its second traversal of a box of several
\* tuples while the second consumer is part-way, after a tuple was overwritten.
C6_Witness ==
    /\ gens[1].runs = 2 /\ gens[1].done /\ Len(gens[1].got) >= 4
    /\ ~gens[2].done /\ Len(gens[2].got) >= 2
    /\ gens[1].muts + gens[2].muts >= 1

\* C28: for any steps, every tuple a traversal yields lies in the box
\* [lower, upper) at a whole number of steps from lower on every axis, no
\* tuple is yielded twice, and a finished traversal has yielded
\* product(ceil((upper[i] - lower[i]) / steps[i])) tuples.
C28_SteppedTuplesOnGrid ==
    \A c \in 1..Len(gens) :
        /\ \A k \in 1..Len(gens[c].got) : \A i \in 1..iterable.end_dimension :
                /\ iterable.lower[i] <= gens[c].got[k][i]
                /\ gens[c].got[k][i] < iterable.upper[i]
                /\ (gens[c].got[k][i] - iterable.lower[i]) % iterable.steps[i] = 0
        /\ \A k, l \in 1..Len(gens[c].got) : k # l => gens[c].got[k] # gens[c].got[l]
        /\ gens[c].done =>
                Len(gens[c].got) =
                    ProdTo(iterable.end_dimension,
                           [i \in 1..iterable.end_dimension |->
                               CeilDiv(iterable.upper[i] - iterable.lower[i], iterable.steps[i])])

(***************************************************************************)
(* Specification SpecFn: one call of a function on arguments drawn from    *)
(* small sets: constructors.array, calculate_broadcast_dimensions and      *)
(* _binary_broadcast.                                                      *)
(***************************************************************************)
MaxData == 6        \* longest data array passed to array()

\* The data arguments: something that is no array, plain arrays of numbers,
\* plain arrays whose first entry is not a number, typed arrays.
ArrayDatas ==
    {[kind |-> "NotArray", elems |-> <<>>, bad |-> {}]}
        \cup {[kind |-> k, elems |-> Iota(n), bad |-> {}] : k \in {"Array", "Int32Array"}, n \in 0..MaxData}
        \cup {[kind |-> "Array", elems |-> Iota(n), bad |-> {1}] : n \in 1..2}

ShapeTuples == UNION {[1..n -> 0..MaxExtent] : n \in 1..2}

\* The shape arguments: omitted, null, an int, arrays, [null], 'asdf' and
\* Uint32Arrays.
ArrayShapes ==
    {[t |-> "undefined", v |-> <<>>], [t |-> "null", v |-> <<>>],
     [t |-> "nonnumeric", v |-> <<>>], [t |-> "other", v |-> <<>>], [t |-> "array", v |-> <<>>]}
        \cup {[t |-> "int", v |-> <<k>>] : k \in 0..MaxData}
        \cup {[t |-> k, v |-> v] : k \in {"array", "typed"}, v \in ShapeTuples}

OperandShapes == UNION {[1..n -> 1..MaxExtent] : n \in 1..2}

\* The dtypes passed to _dtype_join.
Dtypes == {"int8", "uint8", "int16", "uint16", "int32", "uint32", "float64"}

\* The shapes passed to from_iterable.
IterableShapes == ShapeTuples \cup [1..3 -> 1..2]

\* The bounds of a slice of rank 1 or 2: lower <= upper within MaxExtent and
\* steps of 1 to MaxStep.
SliceBounds ==
    UNION {{b \in [lower : [1..n -> 0..MaxExtent], upper : [1..n -> 0..MaxExtent],
                   steps : [1..n -> 1..MaxStep]] :
                \A i \in 1..n : b.lower[i] <= b.upper[i]} : n \in 1..2}

\* The extents of the operands of matmul_2d.
MatrixExtents == 0..(MaxExtent - 1)

\* A rows x cols matrix holding first, first + 1, ... in index order: built
\* by from_iterable, or the slice at 1 of a 2 x rows x cols tensor built by
\* from_iterable.
Matrix(h, how, rows, cols, first) ==
    IF how = "fresh"
    THEN from_iterable(h, [k \in 1..(rows * cols) |-> first + k - 1],
                       [t |-> "typed", v |-> <<rows, cols>>], "int32")
    ELSE slice(from_iterable(h, [k \in 1..(2 * rows * cols) |-> first + k - 1 - rows * cols],
                             [t |-> "typed", v |-> <<2, rows, cols>>], "int32").heap,
               from_iterable(h, [k \in 1..(2 * rows * cols) |-> first + k - 1 - rows * cols],
                             [t |-> "typed", v |-> <<2, rows, cols>>], "int32").view,
               <<Num(1)>>)

\* Index arguments for an axis of extent e, negative ones included: null,
\* scalars from -e to e - 1, and ranges with a negative or positive end, a
\* negative start, or a step.
SignedAxisArgs(e) ==
    {NullIndex} \cup {Num(k) : k \in (0 - e)..(e - 1)}
        \cup {Arr(<<a, b>>) : a \in {0, 0 - 1}, b \in {0 - 1, 0 - e, e}}
        \cup {Arr(<<0, 0 - 1, 2>>)}

\* The lists of up to n index arguments for the leading axes of shape.
RECURSIVE SignedArgLists(_, _)
SignedArgLists(shape, n) ==
    IF n = 0 THEN {<<>>}
    ELSE SignedArgLists(shape, n - 1) \cup
         {Append(p, x) : p \in {q \in SignedArgLists(shape, n - 1) : Len(q) = n - 1},
                         x \in SignedAxisArgs(shape[n])}

\* The calls of convert_negative_indices.
ConvertCalls ==
    UNION {{[fn |-> "convert_negative_indices", done |-> FALSE, index_list |-> l, view_shape |-> sh] :
                l \in SignedArgLists(sh, Len(sh))} : sh \in {<<3>>, <<2, 3>>}}

\* The calls of g: one scalar from -e to e - 1 for each axis of the view.
GetCalls ==
    UNION {{[fn |-> "g", done |-> FALSE, index_list |-> [i \in 1..Len(sh) |-> Num(k[i])],
             view_shape |-> sh] :
                k \in {x \in [1..Len(sh) -> (0 - 4)..3] :
                            \A i \in 1..Len(sh) : x[i] \in (0 - sh[i])..(sh[i] - 1)}}
           : sh \in {<<4, 3, 2>>, <<3, 2>>}}

\* Range indices for an axis of extent e that start at first: up to a stop, up
\* to null, and up to null with a step.
RangesFrom(first, e) ==
    {Arr(<<first, stop>>) : stop \in (first..e) \cup {Null}} \cup {Arr(<<first, Null, 2>>)}

\* The calls of slice on arange(size).reshape(shape) with range indices.
SliceCalls ==
    UNION {{[fn |-> "slice", done |-> FALSE, index_list |-> l, view_shape |-> sh] :
                l \in {<<x>> : x \in UNION {RangesFrom(k, sh[1]) : k \in 0..(sh[1] - 1)}}
                       \cup {<<x, y>> : x \in UNION {RangesFrom(k, sh[1]) : k \in 0..(sh[1] - 1)},
                                        y \in RangesFrom(0, sh[2])}}
           : sh \in {<<5, 3>>, <<3, 2>>}}

\* The boxes lower <= upper inside a shape, with steps up to MaxStep.
BoxesIn(shape) ==
    {b \in [lower_bounds : [1..Len(shape) -> 0..MaxExtent],
            upper_bounds : [1..Len(shape) -> 0..MaxExtent],
            steps : [1..Len(shape) -> 1..MaxStep]] :
        \A i \in 1..Len(shape) :
            b.lower_bounds[i] <= b.upper_bounds[i] /\ b.upper_bounds[i] <= shape[i]}

\* The calls of _iorder_data_iterator(lower, upper, steps) on
\* arange(size).reshape(shape), or on its slice from `from` on along the
\* first axis.
IteratorCalls ==
    UNION {UNION {{[fn |-> "_iorder_data_iterator", done |-> FALSE, view_shape |-> sh, from |-> k,
                    lower_bounds |-> b.lower_bounds, upper_bounds |-> b.upper_bounds, steps |-> b.steps] :
                        b \in BoxesIn([sh EXCEPT ![1] = @ - k])} : k \in 0..1}
           : sh \in {<<3>>, <<2, 3>>, <<3, 2>>}}

\* The calls of nonzero on from_iterable(values, shape), or on its slice
\* from `from` on along the first axis; the values are zeros and ones.
NonzeroCalls ==
    UNION {{[fn |-> "nonzero", done |-> FALSE, view_shape |-> sh, from |-> k, values |-> x] :
                k \in 0..1, x \in [1..compute_size(sh) -> 0..1]}
           : sh \in {<<3>>, <<2, 3>>}}

\* The calls of new_shape_from_axis: a shape and one of its axes.
AxisCalls ==
    UNION {{[fn |-> "new_shape_from_axis", done |-> FALSE, old_shape |-> sh, axis |-> ax] :
                ax \in 0..(Len(sh) - 1)} : sh \in IterableShapes}

FnCalls ==
    {[fn |-> "array", done |-> FALSE, data |-> d, shape |-> sh, dtype |-> dt] :
        d \in ArrayDatas, sh \in ArrayShapes, dt \in {"undefined", "float64"}}
        \cup {[fn |-> "calculate_broadcast_dimensions", done |-> FALSE, a |-> a, b |-> b] :
                a \in ShapeTuples, b \in ShapeTuples}
        \cup {[fn |-> "_binary_broadcast", done |-> FALSE, a |-> a, b |-> b] :
                a \in OperandShapes, b \in OperandShapes}
        \cup {[fn |-> "_dtype_join", done |-> FALSE, a_dtype |-> a, b_dtype |-> b] :
                a \in Dtypes, b \in Dtypes}
        \cup {[fn |-> "from_iterable", done |-> FALSE, shape |-> [t |-> k, v |-> v], dtype |-> dt,
                extra |-> e] :
                k \in {"array", "typed"}, v \in IterableShapes, dt \in {"undefined", "int32"},
                e \in (0 - 1)..1}
        \cup {[fn |-> "new_shape_from_slice", done |-> FALSE, start |-> b.lower, stop |-> b.upper,
                steps |-> b.steps] : b \in SliceBounds}
        \cup AxisCalls
        \cup ConvertCalls
        \cup GetCalls
        \cup SliceCalls
        \cup NonzeroCalls
        \cup IteratorCalls
        \cup {[c EXCEPT !.fn = "_dorder_data_iterator"] : c \in IteratorCalls}
        \cup {[fn |-> "matmul_2d", done |-> FALSE, m |-> m, n |-> n, p |-> p, a_how |-> a, b_how |-> b] :
                m \in MatrixExtents, n \in MatrixExtents, p \in MatrixExtents,
                a \in {"fresh", "sliced"}, b \in {"fresh", "sliced"}}

InitFn ==
    /\ call \in FnCalls
    /\ heap = <<>>
    /\ views = <<>>
    /\ made = <<>>
    /\ last = [op |-> "new", err |-> "none", value |-> <<>>]
    /\ iterable = NoIterable
    /\ objs = <<>>
    /\ gens = <<>>

\* numts.array(data, shape, {dtype})
CallArray ==
    /\ call.fn = "array" /\ ~call.done
    /\ LET r == array(<<call.data>>, 1, call.shape, [disable_checks |-> FALSE, dtype |-> call.dtype])
       IN /\ heap' = r.heap
          /\ views' = IF r.err = "none" THEN <<r.view>> ELSE <<>>
          /\ last' = [op |-> "array", err |-> r.err, value |-> <<>>]
    /\ call' = [call EXCEPT !.done = TRUE]
    /\ UNCHANGED <<made, iterable, objs, gens>>

\* indexing.calculate_broadcast_dimensions(a, b)
CallBroadcastDimensions ==
    /\ call.fn = "calculate_broadcast_dimensions" /\ ~call.done
    /\ last' = IF calculate_broadcast_throws(call.a, call.b)
               THEN [op |-> call.fn, err |-> "BadShape", value |-> <<>>]
               ELSE [op |-> call.fn, err |-> "none",
                     value |-> calculate_broadcast_dimensions(call.a, call.b)]
    /\ call' = [call EXCEPT !.done = TRUE]
    /\ UNCHANGED <<heap, views, made, iterable, objs, gens>>

\* _binary_broadcast(a, b, (x, y) => x + y) for a holding 1, 2, ... and b
\* holding 10, 20, ... in index order.
CallBinaryBroadcast ==
    /\ call.fn = "_binary_broadcast" /\ ~call.done
    /\ LET ra == from_iterable(<<>>, [k \in 1..compute_size(call.a) |-> k],
                               [t |-> "typed", v |-> call.a], "int32")
           rb == from_iterable(ra.heap, [k \in 1..compute_size(call.b) |-> 10 * k],
                               [t |-> "typed", v |-> call.b], "int32")
           r == _binary_broadcast(rb.heap, ra.view, rb.view)
       IN /\ heap' = r.heap
          /\ views' = IF r.err = "none" THEN <<ra.view, rb.view, r.view>> ELSE <<ra.view, rb.view>>
          /\ last' = [op |-> call.fn, err |-> r.err, value |-> <<>>]
    /\ call' = [call EXCEPT !.done = TRUE]
    /\ UNCHANGED <<made, iterable, objs, gens>>

\* The call of matmul_2d on the operands ra and rb.
matmul_of(ra, rb) == matmul_2d(rb.heap, ra.view, rb.view)
matmul_after(ra, how, rows, cols, first) == <<ra, Matrix(ra.heap, how, rows, cols, first)>>

\* tensor.matmul_2d(a, b) for a holding 0, 1, ... and b holding the numbers
\* after those, in index order.
CallMatmul ==
    /\ call.fn = "matmul_2d" /\ ~call.done
    /\ \E ops \in {matmul_after(Matrix(<<>>, call.a_how, call.m, call.n, 0),
                                 call.b_how, call.n, call.p, call.m * call.n)} :
        \E r \in {matmul_of(ops[1], ops[2])} :
            /\ heap' = r.heap
            /\ views' = IF r.err = "none" THEN <<ops[1].view, ops[2].view, r.view>>
                        ELSE <<ops[1].view, ops[2].view>>
            /\ last' = [op |-> call.fn, err |-> r.err, value |-> <<>>]
    /\ call' = [call EXCEPT !.done = TRUE]
    /\ UNCHANGED <<made, iterable, objs, gens>>

\* utils._dtype_join(a, b)
CallDtypeJoin ==
    /\ call.fn = "_dtype_join" /\ ~call.done
    /\ last' = [op |-> call.fn, err |-> "none", value |-> <<_dtype_join(call.a_dtype, call.b_dtype)>>]
    /\ call' = [call EXCEPT !.done = TRUE]
    /\ UNCHANGED <<heap, views, made, iterable, objs, gens>>

\* constructors.from_iterable(seq, shape, dtype) for seq = [1, 2, ...] with the
\* size of the shape, or one more, values.
CallFromIterable ==
    /\ call.fn = "from_iterable" /\ ~call.done
    /\ \E r \in {from_iterable(<<>>, [k \in 1..(compute_size(call.shape.v) + call.extra) |-> k],
                                call.shape, call.dtype)} :
        /\ heap' = r.heap
        /\ views' = IF r.err = "none" THEN <<r.view>> ELSE <<>>
        /\ last' = [op |-> call.fn, err |-> r.err, value |-> <<>>]
    /\ call' = [call EXCEPT !.done = TRUE]
    /\ UNCHANGED <<made, iterable, objs, gens>>

\* indexing.new_shape_from_slice(start, stop, steps)
CallNewShapeFromSlice ==
    /\ call.fn = "new_shape_from_slice" /\ ~call.done
    /\ last' = [op |-> call.fn, err |-> "none",
                value |-> new_shape_from_slice(call.start, call.stop, call.steps)]
    /\ call' = [call EXCEPT !.done = TRUE]
    /\ UNCHANGED <<heap, views, made, iterable, objs, gens>>

\* The first two statements of a reduction along an axis:
\* new_shape_from_axis(a.shape, axis) and zeros(new_shape, dtype).
CallNewShapeFromAxis ==
    /\ call.fn = "new_shape_from_axis" /\ ~call.done
    /\ \E r \in {zeros(<<>>, [t |-> "typed", v |-> new_shape_from_axis(call.old_shape, call.axis)],
                        "int32")} :
        /\ heap' = r.heap
        /\ views' = IF r.err = "none" THEN <<r.view>> ELSE <<>>
        /\ last' = [op |-> call.fn, err |-> r.err,
                    value |-> new_shape_from_axis(call.old_shape, call.axis)]
    /\ call' = [call EXCEPT !.done = TRUE]
    /\ UNCHANGED <<made, iterable, objs, gens>>

\* indexing.convert_negative_indices(indices, shape)
CallConvertNegativeIndices ==
    /\ call.fn = "convert_negative_indices" /\ ~call.done
    /\ last' = [op |-> call.fn, err |-> "none",
                value |-> convert_negative_indices(call.index_list, call.view_shape)]
    /\ call' = [call EXCEPT !.done = TRUE]
    /\ UNCHANGED <<heap, views, made, iterable, objs, gens>>

\* numts.arange(size).reshape(shape).g(...indices)
CallG ==
    /\ call.fn = "g" /\ ~call.done
    /\ \E r \in {FreshFromIterable(<<>>, call.view_shape)} :
        /\ heap' = r.heap
        /\ views' = <<r.view>>
        /\ last' = IF g_throws(r.view, call.index_list)
                   THEN [op |-> call.fn, err |-> "Error", value |-> <<>>]
                   ELSE [op |-> call.fn, err |-> "none", value |-> <<g(r.heap, r.view, call.index_list)>>]
    /\ call' = [call EXCEPT !.done = TRUE]
    /\ UNCHANGED <<made, iterable, objs, gens>>

\* numts.arange(size).reshape(shape).slice(...indices)
CallSlice ==
    /\ call.fn = "slice" /\ ~call.done
    /\ \E a \in {FreshFromIterable(<<>>, call.view_shape)} :
        \E r \in {slice(a.heap, a.view, call.index_list)} :
            /\ heap' = r.heap
            /\ views' = IF r.err = "none" THEN <<a.view, r.view>> ELSE <<a.view>>
            /\ last' = [op |-> call.fn, err |-> r.err,
                        value |-> IF r.err = "none" THEN r.view.shape ELSE <<>>]
    /\ call' = [call EXCEPT !.done = TRUE]
    /\ UNCHANGED <<made, iterable, objs, gens>>

\* The view of an iterator call: arange(size).reshape(shape), sliced with
\* [from, shape[0]] when from is not 0.
ViewFrom(shape, from) ==
    LET a == FreshFromIterable(<<>>, shape)
    IN IF from = 0 THEN a ELSE slice(a.heap, a.view, <<Arr(<<from, shape[1]>>)>>)

\* v._iorder_data_iterator(lower, upper, steps), traversed to its end.
CallIorderDataIterator ==
    /\ call.fn = "_iorder_data_iterator" /\ ~call.done
    /\ \E r \in {ViewFrom(call.view_shape, call.from)} :
        /\ heap' = r.heap
        /\ views' = <<r.view>>
        /\ last' = [op |-> call.fn, err |-> "none",
                    value |-> iorder_data_iterator_within(r.view, call.lower_bounds,
                                                          call.upper_bounds, call.steps)]
    /\ call' = [call EXCEPT !.done = TRUE]
    /\ UNCHANGED <<made, iterable, objs, gens>>

\* [...v._dorder_data_iterator(lower, upper, steps)]
CallDorderDataIterator ==
    /\ call.fn = "_dorder_data_iterator" /\ ~call.done
    /\ \E r \in {ViewFrom(call.view_shape, call.from)} :
        /\ heap' = r.heap
        /\ views' = <<r.view>>
        /\ \E t \in {spread(_dorder_data_iterator(r.view, call.lower_bounds,
                                                  call.upper_bounds, call.steps))} :
                last' = [op |-> call.fn, err |-> t.err, value |-> t.value]
    /\ call' = [call EXCEPT !.done = TRUE]
    /\ UNCHANGED <<made, iterable, objs, gens>>

\* numts.from_iterable(values, shape, 'int32'), sliced with
\* [from, shape[0]] when from is not 0.
ValuesFrom(values, shape, from) ==
    LET a == from_iterable(<<>>, values, [t |-> "typed", v |-> shape], "int32")
    IN IF from = 0 THEN a ELSE slice(a.heap, a.view, <<Arr(<<from, shape[1]>>)>>)

\* v.nonzero()
CallNonzero ==
    /\ call.fn = "nonzero" /\ ~call.done
    /\ \E r \in {ValuesFrom(call.values, call.view_shape, call.from)} :
        /\ heap' = r.heap
        /\ views' = <<r.view>>
        /\ last' = [op |-> call.fn, err |-> "none", value |-> nonzero(r.heap, r.view)]
    /\ call' = [call EXCEPT !.done = TRUE]
    /\ UNCHANGED <<made, iterable, objs, gens>>

NextFn ==
    \/ CallArray
    \/ CallBroadcastDimensions
    \/ CallBinaryBroadcast
    \/ CallMatmul
    \/ CallDtypeJoin
    \/ CallFromIterable
    \/ CallNewShapeFromSlice
    \/ CallNewShapeFromAxis
    \/ CallConvertNegativeIndices
    \/ CallG
    \/ CallSlice
    \/ CallNonzero
    \/ CallIorderDataIterator
    \/ CallDorderDataIterator

SpecFn == InitFn /\ [][NextFn]_vars

\* The shape array() is to give the tensor, for the shape arguments that
\* have one: [data.length] when omitted or null, [k] for an int k, [0] for
\* the empty array, the entries of any other array.
HasNormalShape(shape) ==
    shape.t \in {"undefined", "null", "int", "array"} \/ (shape.t = "typed" /\ Len(shape.v) > 0)
NormalShape(shape, length) ==
    IF shape.t \in {"undefined", "null"} THEN <<length>>
    ELSE IF shape.t = "array" /\ Len(shape.v) = 0 THEN <<0>>
    ELSE shape.v

FromRight(shape, j) == IF j <= Len(shape) THEN shape[Len(shape) - j + 1] ELSE 1

\* C9: calculate_broadcast_dimensions fails exactly when two right-aligned
\* sizes differ and neither is 1; otherwise its result has the larger rank
\* and on each axis the common size or the size that is not 1; and it does
\* the same for (b, a) as for (a, b).
C9_BroadcastShape ==
    (call.fn = "calculate_broadcast_dimensions" /\ call.done) =>
        LET n == Max(Len(call.a), Len(call.b))
            clash == \E j \in 1..n :
                        /\ FromRight(call.a, j) # FromRight(call.b, j)
                        /\ FromRight(call.a, j) # 1
                        /\ FromRight(call.b, j) # 1
        IN /\ (last.err # "none") <=> clash
           /\ calculate_broadcast_throws(call.b, call.a) <=> clash
           /\ ~clash =>
                /\ Len(last.value) = n
                /\ \A j \in 1..n :
                     FromRight(last.value, j) =
                        IF FromRight(call.a, j) = 1 THEN FromRight(call.b, j) ELSE FromRight(call.a, j)
                /\ calculate_broadcast_dimensions(call.b, call.a) = last.value

\* (2, 1) against (1, 3) has given (2, 3).
C9_Witness ==
    /\ call.fn = "calculate_broadcast_dimensions" /\ call.done
    /\ call.a = <<2, 1>> /\ call.b = <<1, 3>>
    /\ last.err = "none" /\ last.value = <<2, 3>>

\* The index of an operand that output index idx stands for: idx aligned to
\* the operand's rank from the right, 0 on the axes where its extent is 1.
OperandIndex(shape, idx) ==
    [i \in 1..Len(shape) |->
        IF shape[i] = 1 THEN 0 ELSE idx[Len(idx) - Len(shape) + i]]

\* C10: for broadcast-compatible a and b, _binary_broadcast(a, b, f) returns
\* a tensor over a buffer of its own, of the broadcast shape, whose element
\* at every index idx is f of a's and b's elements at idx right-aligned and
\* clamped to 0 where the operand's extent is 1.
C10_BroadcastElements ==
    (call.fn = "_binary_broadcast" /\ call.done /\ ~calculate_broadcast_throws(call.a, call.b)) =>
        /\ last.err = "none"
        /\ Len(views) = 3
        /\ views[3].shape = calculate_broadcast_dimensions(call.a, call.b)
        /\ views[3].data \notin {views[1].data, views[2].data}
        /\ \A idx \in AllIndices(views[3].shape) :
                At(heap, views[3], idx) =
                    f(At(heap, views[1], OperandIndex(call.a, idx)),
                      At(heap, views[2], OperandIndex(call.b, idx)))

(***************************************************************************)
(* Properties of set (s) under SpecAlias.                                  *)
(***************************************************************************)
\* The shape v.slice(...indices) is to have: the extent of each range, the
\* whole extent where nothing is asked, the pinned axes removed.
SubShape(indices, shape) ==
    Filter([i \in 1..Len(shape) |->
                IF Asked(indices, i) /\ indices[i].t = "arr"
                THEN (indices[i].a[2] - indices[i].a[1]) \div StepOf(indices, i)
                ELSE shape[i]],
           (1..Len(shape)) \ Pinned(indices, Len(shape)), 1)

\* The shape of a value passed to s, and its element at an index.
ValueShape(h, value) ==
    CASE value.t = "num" -> <<1>>
      [] value.t = "typed" -> <<Len(h[value.data].elems)>>
      [] OTHER -> value.view.shape
ValueAt(h, value, idx) ==
    CASE value.t = "num" -> value.n
      [] value.t = "typed" -> h[value.data].elems[idx[1] + 1]
      [] OTHER -> At(h, value.view, idx)

\* A value shape that broadcasts against a sub-view shape: aligned from the
\* right, each extent equal or 1.
Compatible(value_shape, sub_shape) ==
    /\ Len(value_shape) <= Len(sub_shape)
    /\ \A i \in 1..Len(value_shape) :
        value_shape[i] \in {1, sub_shape[i + Len(sub_shape) - Len(value_shape)]}

\* C11: a call v.s(value, ...indices) with a range index and a value that
\* broadcasts against the sub-view succeeds; afterwards every element of the
\* sub-view is the value's element at the same index, aligned from the right
\* and clamped to 0 on the value's axes of extent 1, and every element of v
\* outside the sub-view is what it was.
C11_SetAssignsBroadcast ==
    [][(/\ last'.op = "s"
        /\ ~checks_indices_are_single_index(last'.args[2])
        /\ Compatible(ValueShape(heap, last'.args[1]),
                      SubShape(last'.args[2], views[last'.parent].shape))) =>
            LET value == last'.args[1]
                indices == last'.args[2]
                v == views[last'.parent]
                n == Len(v.shape)
                sub == SubShape(indices, v.shape)
            IN /\ last'.err = "none"
               /\ \A j \in AllIndices(sub) :
                    At(heap', v, SourceIndex(indices, n, j)) =
                        ValueAt(heap, value, OperandIndex(ValueShape(heap, value), j))
               /\ \A idx \in AllIndices(v.shape) :
                    (\A j \in AllIndices(sub) : SourceIndex(indices, n, j) # idx) =>
                        At(heap', v, idx) = At(heap, v, idx)]_vars

\* A call of s with one in-range scalar index per axis and a scalar value.
ScalarSet(l, v) ==
    /\ l.op = "s"
    /\ l.args[1].t = "num"
    /\ Len(l.args[2]) = Len(v.shape)
    /\ \A i \in 1..Len(l.args[2]) :
        /\ l.args[2][i].t = "num"
        /\ l.args[2][i].a[1] \in 0..(v.shape[i] - 1)

\* initial_offset + sum(i_k * stride[k]), counted from 0.
ScalarOffset(v, indices) ==
    v.initial_offset + SumTo(Len(indices), [k \in 1..Len(indices) |-> indices[k].a[1] * v.stride[k]])

\* C12: v.s(x, i_1, ..., i_n) with one in-range scalar index per axis and a
\* scalar x succeeds and changes exactly the buffer element at
\* initial_offset + sum(i_k * stride[k]), which becomes x, so that
\* v.g(i_1, ..., i_n) = x afterwards; every other element of every buffer
\* and every field of every view is as before.
C12_ScalarSetChangesOneElement ==
    [][ScalarSet(last', views[last'.parent]) =>
        LET v == views[last'.parent]
            o == ScalarOffset(v, last'.args[2])
        IN /\ last'.err = "none"
           /\ o \in 0..(Len(heap[v.data].elems) - 1)
           /\ heap' = [heap EXCEPT ![v.data].elems[o + 1] = last'.args[1].n]
           /\ g(heap', v, last'.args[2]) = last'.args[1].n
           /\ views' = views]_vars

\* A scalar set has acted through a sliced view whose initial offset is not
\* zero, and the element it names holds the value.
C12_Witness ==
    /\ ScalarSet(last, views[last.parent])
    /\ last.err = "none"
    /\ views[last.parent].initial_offset > 0
    /\ Len(views[last.parent].shape) > 0
    /\ heap[views[last.parent].data].elems[ScalarOffset(views[last.parent], last.args[2]) + 1] = 7

(***************************************************************************)
(* Specification SpecCopy: a fresh view, then slice, reshape, flatten,     *)
(* transpose and set called on the views made so far.                      *)
(***************************************************************************)
MaxCopyOps == 3     \* calls made on the views after the fresh one

CopyShapes == {<<4>>, <<3, 2>>}

\* Some in-range index arguments for an axis of extent e.
CopyAxisArgs(e) ==
    {NullIndex} \cup (IF e >= 1 THEN {Num(0), Arr(<<1, e>>), Arr(<<0, e, 2>>)} ELSE {})

RECURSIVE CopyArgLists(_, _)
CopyArgLists(shape, n) ==
    IF n = 0 THEN {}
    ELSE IF n = 1 THEN {<<x>> : x \in CopyAxisArgs(shape[1]) \ {NullIndex}}
    ELSE {Append(p, x) : p \in {q \in CopyArgLists(shape, n - 1) : Len(q) = n - 1} \cup
                                 (IF n = 2 THEN {<<NullIndex>>} ELSE {}),
                         x \in CopyAxisArgs(shape[n])}

\* The shapes asked of reshape.
NewShapes == {<<4>>, <<2, 2>>, <<6>>, <<2, 3>>, <<2>>, <<1>>, <<1, 3>>}

\* The index lists of a call of s: one scalar per axis, or the whole first
\* axis.
SetArgLists(shape) ==
    {[i \in 1..Len(shape) |-> Num(idx[i])] : idx \in AllIndices(shape)}
        \cup (IF Len(shape) >= 1 THEN {<<Arr(<<0, shape[1]>>)>>} ELSE {})

InitCopy ==
    /\ \E shape \in CopyShapes :
        LET r == FreshFromIterable(<<>>, shape)
        IN /\ heap = r.heap
           /\ views = <<r.view>>
    /\ made = <<Made("new", 0, <<>>)>>
    /\ last = [op |-> "new", args |-> <<>>, err |-> "none", parent |-> 0, seq |-> 0]
    /\ iterable = NoIterable
    /\ objs = <<>>
    /\ gens = <<>>
    /\ call = NoCall

\* The state after a call on views[p] that returns a tensor (r.view) or
\* throws (r.err).
Returned(r, op, p, args) ==
    /\ heap' = r.heap
    /\ views' = IF r.err = "none" THEN Append(views, r.view) ELSE views
    /\ made' = IF r.err = "none" THEN Append(made, Made(op, p, args)) ELSE made
    /\ last' = [op |-> op, args |-> args, err |-> r.err, parent |-> p, seq |-> last.seq + 1]
    /\ UNCHANGED <<iterable, objs, gens, call>>

\* views[p].slice(...indices)
CopySlice ==
    /\ last.seq < MaxCopyOps
    /\ \E p \in 1..Len(views) : \E indices \in CopyArgLists(views[p].shape, Len(views[p].shape)) :
        Returned(slice(heap, views[p], indices), "slice", p, indices)

\* views[p].reshape(new_shape)
CopyReshape ==
    /\ last.seq < MaxCopyOps
    /\ \E p \in 1..Len(views) : \E new_shape \in NewShapes :
        Returned(_reshape(heap, views[p], new_shape), "reshape", p, new_shape)

\* The second call of v.reshape(new_shape).reshape(v.shape).
reshape_back(first, shape) == IF first.err # "none" THEN first ELSE _reshape(first.heap, first.view, shape)

\* views[p].reshape(new_shape).reshape(views[p].shape)
CopyReshapeBack ==
    /\ last.seq < MaxCopyOps
    /\ \E p \in 1..Len(views) : \E new_shape \in NewShapes :
        Returned(reshape_back(_reshape(heap, views[p], new_shape), views[p].shape),
                 "reshape_back", p, new_shape)

\* views[p].flatten()
CopyFlatten ==
    /\ last.seq < MaxCopyOps
    /\ \E p \in 1..Len(views) : Returned(_flatten(heap, views[p]), "flatten", p, <<>>)

\* views[p].transpose()
CopyTranspose ==
    /\ last.seq < MaxCopyOps
    /\ \E p \in 1..Len(views) : Returned(_transpose(heap, views[p]), "transpose", p, <<>>)

\* views[p].s(7, ...indices)
CopySet ==
    /\ last.seq < MaxCopyOps
    /\ \E p \in 1..Len(views) : \E indices \in SetArgLists(views[p].shape) :
        LET r == s(heap, views[p], [t |-> "num", n |-> 7], indices)
        IN /\ heap' = r.heap
           /\ last' = [op |-> "s", args |-> indices, err |-> r.err, parent |-> p,
                       seq |-> last.seq + 1]
    /\ UNCHANGED <<views, made, iterable, objs, gens, call>>

NextCopy == CopySlice \/ CopyReshape \/ CopyReshapeBack \/ CopyFlatten \/ CopyTranspose \/ CopySet

SpecCopy == InitCopy /\ [][NextCopy]_vars

(***************************************************************************)
(* Properties of reshape, flatten and transpose under SpecCopy.            *)
(***************************************************************************)
\* The elements of v in index order, the last axis varying fastest, each
\* read as v.g reads it.
ValueSequence(h, v) ==
    [k \in 1..Len(LexBox(Zeros(Len(v.shape)), v.shape)) |->
        At(h, v, LexBox(Zeros(Len(v.shape)), v.shape)[k])]

\* The view a successful call has just returned.
Returned_view == views[Len(views)]

\* C13: v.reshape(S) with product(S) = v.length succeeds and has the
\* index-order value sequence of v; v.reshape(S).reshape(v.shape) has the
\* element of v at every logical index; with product(S) different from
\* v.length reshape raises an error.
C13_ReshapePreservesSequence ==
    [][last'.op \in {"reshape", "reshape_back"} =>
        LET v == views[last'.parent]
        IN IF ProdTo(Len(last'.args), last'.args) = v.length
           THEN /\ last'.err = "none"
                /\ last'.op = "reshape" =>
                        /\ views'[Len(views')].shape = last'.args
                        /\ ValueSequence(heap', views'[Len(views')]) = ValueSequence(heap, v)
                /\ last'.op = "reshape_back" =>
                        \A idx \in AllIndices(v.shape) :
                            At(heap', views'[Len(views')], idx) = At(heap, v, idx)
           ELSE last'.err # "none"]_vars

CopyOps == {"reshape", "reshape_back", "flatten", "transpose"}

\* The view whose construction gave view q its buffer: q itself when it is
\* fresh or was returned by reshape, flatten or transpose, otherwise that
\* view of the view it was sliced from.
RECURSIVE BufferRoot(_)
BufferRoot(q) == IF made[q].op = "slice" THEN BufferRoot(made[q].parent) ELSE q

\* C14: reshape, flatten and transpose return a view on a buffer no earlier
\* view has, and a set through a view changes no element read through a
\* view on the other side of a reshape, flatten or transpose.
C14_CopiesAreFresh ==
    [][/\ (last'.op \in CopyOps /\ last'.err = "none") =>
            /\ \A q \in 1..Len(views) : views[q].data # views'[Len(views')].data
            /\ \A q \in 1..Len(views) : \A idx \in AllIndices(views[q].shape) :
                    At(heap', views[q], idx) = At(heap, views[q], idx)
       /\ last'.op = "s" =>
            \A q \in 1..Len(views) : \A idx \in AllIndices(views[q].shape) :
                \/ BufferRoot(q) = BufferRoot(last'.parent)
                \/ At(heap', views[q], idx) = At(heap, views[q], idx)]_vars

\* A set has written 7 through a view that flatten returned, and another
\* through the view that was flattened, and neither shows through the other.
C14_Witness ==
    /\ last.op = "s"
    /\ last.err = "none"
    /\ \E r \in 1..Len(views) :
        /\ made[r].op = "flatten"
        /\ \E o \in 1..Len(heap[views[r].data].elems) : \E u \in 1..Len(heap[views[made[r].parent].data].elems) :
            /\ heap[views[r].data].elems[o] = 7
            /\ heap[views[made[r].parent].data].elems[u] = 7
            /\ ValueSequence(heap, views[r]) # ValueSequence(heap, views[made[r].parent])

\* C15: t = v.transpose() succeeds, has the shape of v reversed, and
\* t.g(i_n, ..., i_1) = v.g(i_1, ..., i_n) for every index of v.
C15_TransposeReversesAxes ==
    [][last'.op = "transpose" =>
        /\ last'.err = "none"
        /\ views'[Len(views')].shape = reverse(views[last'.parent].shape)
        /\ \A idx \in AllIndices(views[last'.parent].shape) :
                At(heap', views'[Len(views')], reverse(idx)) = At(heap, views[last'.parent], idx)]_vars

(***************************************************************************)
(* Properties of squeeze under Spec.                                       *)
(***************************************************************************)
\* C16: v.squeeze() succeeds on every view, sliced views with a non-zero
\* initial offset and views whose axes all have extent 1 included; the
\* result shares v's buffer, has the shape of v without its extent-1 axes,
\* and has the index-order value sequence of v.
C16_SqueezeKeepsValues ==
    [][last'.op = "squeeze" =>
        /\ last'.err = "none"
        /\ views'[Len(views')].data = views[last'.parent].data
        /\ heap' = heap
        /\ views'[Len(views')].shape =
                Filter(views[last'.parent].shape,
                       {i \in 1..Len(views[last'.parent].shape) : views[last'.parent].shape[i] # 1}, 1)
        /\ ValueSequence(heap', views'[Len(views')]) = ValueSequence(heap, views[last'.parent])]_vars

(***************************************************************************)
(* Properties of the JSON round trip under Spec.                           *)
(***************************************************************************)
\* C17: for every view v, fresh or made by slicing, from_json(v.to_json())
\* succeeds and equals v under tensor.equals.
C17_JsonRoundTrip ==
    [][last'.op = "from_json" =>
        /\ last'.err = "none"
        /\ equals(heap', views'[Len(views')], views[last'.parent])]_vars

(***************************************************************************)
(* Properties of matmul_2d under SpecFn.                                   *)
(***************************************************************************)
\* The sum over k of a(i, k) * b(k, j).
RECURSIVE InnerProduct(_, _, _, _, _, _)
InnerProduct(h, a, b, i, j, n) ==
    IF n = 0 THEN 0
    ELSE InnerProduct(h, a, b, i, j, n - 1) + At(h, a, <<i, n - 1>>) * At(h, b, <<n - 1, j>>)

\* C18: for a of shape (m, n) and b of shape (n, p), fresh or sliced from a
\* tensor of rank 3, matmul_2d(a, b) succeeds and returns a view of shape
\* (m, p) on a buffer of its own whose element (i, j) is the sum over k of
\* a(i, k) * b(k, j).
C18_MatmulElements ==
    (call.fn = "matmul_2d" /\ call.done) =>
        /\ last.err = "none"
        /\ Len(views) = 3
        /\ views[3].shape = <<call.m, call.p>>
        /\ views[3].data \notin {views[1].data, views[2].data}
        /\ \A idx \in AllIndices(<<call.m, call.p>>) :
                At(heap, views[3], idx) = InnerProduct(heap, views[1], views[2], idx[1], idx[2], call.n)

(***************************************************************************)
(* Properties of _dtype_join under SpecFn.                                 *)
(***************************************************************************)
\* The integers of a dtype run from -2^NegativeBits (from 0 when it is -1)
\* to 2^PositiveBits - 1; float64 holds every integer up to 2^53 exactly.
NegativeBits(dtype) ==
    CASE dtype = "float64" -> 53
      [] dtype \in {"int8", "int16", "int32"} -> Bits(dtype_map(dtype)) - 1
      [] OTHER -> 0 - 1

PositiveBits(dtype) ==
    CASE dtype = "float64" -> 53
      [] dtype \in {"int8", "int16", "int32"} -> Bits(dtype_map(dtype)) - 1
      [] OTHER -> Bits(dtype_map(dtype))

\* Every integer of dtype is an integer of joined.
Holds(joined, dtype) ==
    /\ NegativeBits(joined) >= NegativeBits(dtype)
    /\ PositiveBits(joined) >= PositiveBits(dtype)

\* C19: _dtype_join(a, b) holds every integer of a and every integer of b,
\* and _dtype_join(a, a) = a.
C19_DtypeJoinLossless ==
    (call.fn = "_dtype_join" /\ call.done) =>
        /\ Holds(last.value[1], call.a_dtype)
        /\ Holds(last.value[1], call.b_dtype)
        /\ call.a_dtype = call.b_dtype => last.value[1] = call.a_dtype

(***************************************************************************)
(* Properties of from_iterable under SpecFn.                               *)
(***************************************************************************)
\* C20: from_iterable(seq, shape) succeeds and returns a view of that shape
\* with stride[0] = 1 and stride[i+1] = stride[i] * shape[i], on a buffer
\* no other object is, in which the k-th value of seq is the element at
\* the k-th index of index order, for every k up to the size of the shape.
C20_FromIterableOrder ==
    (call.fn = "from_iterable" /\ call.done) =>
        /\ last.err = "none"
        /\ Len(views) = 1
        /\ Len(heap) = 1
        /\ views[1].shape = call.shape.v
        /\ views[1].stride[1] = 1
        /\ \A i \in 1..(Len(call.shape.v) - 1) :
                views[1].stride[i + 1] = views[1].stride[i] * call.shape.v[i]
        /\ \A k \in 1..Min(ProdTo(Len(call.shape.v), call.shape.v),
                          ProdTo(Len(call.shape.v), call.shape.v) + call.extra) :
                At(heap, views[1], LexBox(Zeros(Len(call.shape.v)), call.shape.v)[k]) = k

\* from_iterable([1, 2, 3, 4], [2, 2]) has returned a view on the buffer
\* [1, 3, 2, 4].
C20_Witness ==
    /\ call.fn = "from_iterable" /\ call.done
    /\ call.shape.v = <<2, 2>>
    /\ call.extra = 0
    /\ call.dtype = "undefined"
    /\ Len(views) = 1
    /\ heap[views[1].data] = [kind |-> "Float64Array", elems |-> <<1, 3, 2, 4>>, bad |-> {}]

(***************************************************************************)
(* Properties of the slice arithmetic under SpecFn.                        *)
(***************************************************************************)
\* The number of positions start, start + step, ... below stop.
Positions(start, stop, step) == Cardinality({k \in start..(stop - 1) : (k - start) % step = 0})

\* C21: new_shape_from_slice(start, stop, steps) is on every axis the
\* number of positions start, start + step, ... below stop, and so its
\* product is compute_slice_size of the same bounds.
C21_SliceShapeCountsPositions ==
    (call.fn = "new_shape_from_slice" /\ call.done) =>
        /\ Len(last.value) = Len(call.stop)
        /\ \A i \in 1..Len(call.stop) :
                last.value[i] = Positions(call.start[i], call.stop[i], call.steps[i])
        /\ ProdTo(Len(last.value), last.value) =
                compute_slice_size(call.start, call.stop, call.steps)

\* C22: new_shape_from_axis(shape, axis) is shape without its entry at
\* axis when the rank is more than 1 and [1] when the rank is 1, so the
\* array a reduction of a vector allocates has one element.
C22_ShapeAfterReduction ==
    (call.fn = "new_shape_from_axis" /\ call.done) =>
        /\ last.err = "none"
        /\ Len(call.old_shape) > 1 =>
                last.value = [i \in 1..(Len(call.old_shape) - 1) |->
                                call.old_shape[IF i <= call.axis THEN i ELSE i + 1]]
        /\ Len(call.old_shape) = 1 =>
                /\ last.value = <<1>>
                /\ Len(heap[views[1].data].elems) = 1

(***************************************************************************)
(* Properties of negative indices under SpecFn.                            *)
(***************************************************************************)
\* An index counted from the end of an axis of extent e when it is
\* negative.
FromEnd(k, e) == IF k < 0 THEN e + k ELSE k

\* C23: convert_negative_indices returns the list in which a negative
\* scalar k at axis i is shape[i] + k, a range has only its end corrected
\* in that way, and every other entry is as given; so g with negative
\* scalars on arange(size).reshape(shape) reads the element at the
\* corrected index.
C23_NegativeIndicesConverted ==
    /\ (call.fn = "convert_negative_indices" /\ call.done) =>
            /\ Len(last.value) = Len(call.index_list)
            /\ \A i \in 1..Len(call.index_list) :
                    /\ last.value[i].t = call.index_list[i].t
                    /\ Len(last.value[i].a) = Len(call.index_list[i].a)
                    /\ \A j \in 1..Len(call.index_list[i].a) :
                            last.value[i].a[j] =
                                IF (call.index_list[i].t = "num" /\ j = 1)
                                    \/ (call.index_list[i].t = "arr" /\ j = 2)
                                THEN FromEnd(call.index_list[i].a[j], call.view_shape[i])
                                ELSE call.index_list[i].a[j]
    /\ (call.fn = "g" /\ call.done) =>
            /\ last.err = "none"
            /\ last.value[1] =
                    SumTo(Len(call.view_shape),
                          [i \in 1..Len(call.view_shape) |->
                              FromEnd(call.index_list[i].a[1], call.view_shape[i])
                                  * ProdTo(Len(call.view_shape),
                                           [j \in 1..Len(call.view_shape) |->
                                               IF j > i THEN call.view_shape[j] ELSE 1])])

\* g(-1, -2, -1) on arange(24).reshape(4, 3, 2) has read 21, the element at
\* (3, 1, 1).
C23_Witness ==
    /\ call.fn = "g" /\ call.done
    /\ call.view_shape = <<4, 3, 2>>
    /\ call.index_list = <<Num(0 - 1), Num(0 - 2), Num(0 - 1)>>
    /\ last.value = <<21>>
    /\ At(heap, views[1], <<3, 1, 1>>) = 21

\* C24: a range index whose stop is null runs to the end of its axis: the
\* slice has extent shape[axis] - s on the axis of a range [s, null], so a
\* 5 x 3 view sliced with ([0, null], [0, 1]) has shape (5, 1).
C24_NullStopRunsToEnd ==
    (call.fn = "slice" /\ call.done) =>
        /\ last.err = "none"
        /\ Len(last.value) = Len(call.view_shape)
        /\ \A i \in 1..Len(call.index_list) :
                (Len(call.index_list[i].a) = 2 /\ call.index_list[i].a[2] = Null) =>
                    last.value[i] = call.view_shape[i] - call.index_list[i].a[1]

(***************************************************************************)
(* Properties of the bounded iterators under SpecFn.                       *)
(***************************************************************************)
\* The tuples slice_iterator yields for the bounds of the call.
CallIndices == iterate(slice_iterator(call.lower_bounds, call.upper_bounds, call.steps))

\* C25: for any bounds lower <= upper inside the shape and any steps, the
\* offset iterator yields, in the same order and number, the real index of
\* each tuple slice_iterator yields for the same bounds.
C25_OffsetsFollowBoundedIndices ==
    (call.fn = "_iorder_data_iterator" /\ call.done) =>
        /\ Len(last.value) = Len(CallIndices)
        /\ \A k \in 1..Len(last.value) :
                k <= Len(CallIndices) => last.value[k] = _compute_real_index(views[1], CallIndices[k])

\* C26: data-order offset iteration yields the offsets that index-order
\* offset iteration yields over the same bounds, each once, in strictly
\* increasing buffer offset.
C26_DataOrderIncreasing ==
    (call.fn = "_dorder_data_iterator" /\ call.done) =>
        LET offsets == iorder_data_iterator_within(views[1], call.lower_bounds,
                                                   call.upper_bounds, call.steps)
        IN /\ last.err = "none"
           /\ Len(last.value) = Len(offsets)
           /\ {last.value[k] : k \in 1..Len(last.value)} = {offsets[k] : k \in 1..Len(offsets)}
           /\ \A k \in 1..(Len(last.value) - 1) : last.value[k] < last.value[k + 1]

\* C27: nonzero returns, in index order, the logical indices inside the
\* view's shape at which its element is not zero, for fresh views and for
\* sliced views with a non-zero offset.
C27_NonzeroIndices ==
    (call.fn = "nonzero" /\ call.done) =>
        last.value = SelectSeq(LexBox(Zeros(Len(views[1].shape)), views[1].shape),
                               LAMBDA idx : At(heap, views[1], idx) # 0)

\* C30: from_iterable(seq, shape) raises MismatchedShapeSize and returns no
\* view whenever seq yields fewer or more values than the size of shape.
C30_FromIterableSizeChecked ==
    (call.fn = "from_iterable" /\ call.done /\ call.extra # 0) =>
        /\ last.err = "MismatchedShapeSize"
        /\ views = <<>>

(***************************************************************************)
(* Specification SpecArgs: a caller holds one list of index arguments and  *)
(* passes it to slice, g and s of two views of different shapes, one call  *)
(* after another.                                                          *)
(***************************************************************************)
MaxCalls == 3       \* calls the caller makes with its list

ArgShapes == {<<(<<3>>), (<<2>>)>>, <<(<<2, 3>>), (<<3, 2>>)>>}

ArgEntries ==
    {NullIndex, Num(0), Num(0 - 1), Arr(<<0, 0 - 1>>), Arr(<<0, 2>>), Arr(<<1, 0 - 1>>)}

HeldArgLists(n) == UNION {[1..m -> ArgEntries] : m \in 1..n}

InitArgs ==
    /\ \E shapes \in ArgShapes :
        /\ \E a \in {FreshFromIterable(<<>>, shapes[1])} :
            \E b \in {FreshFromIterable(a.heap, shapes[2])} :
                /\ heap = b.heap
                /\ views = <<a.view, b.view>>
        /\ \E l \in HeldArgLists(Len(shapes[1])) :
                call = [fn |-> "args", index_list |-> l, original |-> l, calls |-> 0]
    /\ made = <<>>
    /\ last = [op |-> "new", err |-> "none", on |-> 0, value |-> <<>>]
    /\ iterable = NoIterable
    /\ objs = <<>>
    /\ gens = <<>>

\* slice runs convert_negative_indices unless it returns or throws first.
slice_converts(indices) ==
    ~(Len(indices) = 1 /\ ~is_numeric(indices[1]) /\ indices[1].t = "null")

\* views[p].slice(...list) with the caller's list.
ArgsSlice(p) ==
    /\ call.calls < MaxCalls
    /\ \E r \in {slice(heap, views[p], call.index_list)} :
        /\ heap' = r.heap
        /\ last' = [op |-> "slice", err |-> r.err, on |-> p,
                    value |-> IF r.err = "none" THEN r.view.shape ELSE <<>>]
    /\ call' = [call EXCEPT !.calls = @ + 1,
                            !.index_list = IF slice_converts(@)
                                           THEN caller_indices_after(@, views[p].shape) ELSE @]
    /\ UNCHANGED <<views, made, iterable, objs, gens>>

\* views[p].g(...list) with a list of scalars.
ArgsG(p) ==
    /\ call.calls < MaxCalls
    /\ checks_indices_are_single_index(call.index_list)
    /\ last' = IF g_throws(views[p], call.index_list)
               THEN [op |-> "g", err |-> "Error", on |-> p, value |-> <<>>]
               ELSE [op |-> "g", err |-> "none", on |-> p,
                     value |-> <<g(heap, views[p], call.index_list)>>]
    /\ call' = [call EXCEPT !.calls = @ + 1,
                            !.index_list = IF g_throws(views[p], @) THEN @
                                           ELSE caller_indices_after(@, views[p].shape)]
    /\ UNCHANGED <<heap, views, made, iterable, objs, gens>>

\* views[p].s(7, ...list) with the caller's list.
ArgsS(p) ==
    /\ call.calls < MaxCalls
    /\ \E r \in {s(heap, views[p], [t |-> "num", n |-> 7], call.index_list)} :
        /\ heap' = r.heap
        /\ last' = [op |-> "s", err |-> r.err, on |-> p, value |-> <<>>]
    /\ call' = [call EXCEPT !.calls = @ + 1,
                            !.index_list =
                                IF (checks_indices_are_single_index(@) /\ Len(@) = Len(views[p].shape))
                                    \/ slice_converts(@)
                                THEN caller_indices_after(@, views[p].shape) ELSE @]
    /\ UNCHANGED <<views, made, iterable, objs, gens>>

NextArgs ==
    \/ \E p \in 1..2 : ArgsSlice(p)
    \/ \E p \in 1..2 : ArgsG(p)
    \/ \E p \in 1..2 : ArgsS(p)

SpecArgs == InitArgs /\ [][NextArgs]_vars

\* C29: slice, g and s leave the caller's index arguments as they were:
\* every range array still holds the end it was given, and a slice with the
\* list has the shape that a slice with the original list has on that view.
C29_CallerIndicesUnchanged ==
    /\ call.index_list = call.original
    /\ (last.op = "slice" /\ last.err = "none") =>
            LET r == slice(heap, views[last.on], call.original)
            IN r.err = "none" /\ last.value = r.view.shape

====
